---- MODULE Spec2Model ----
(***************************************************************************)
(* State-machine model of favie_common/trace/context_trace_func.py: the    *)
(* decorator context_trace_function and its four wrappers (sync_wrapper,   *)
(* async_wrapper, generator_wrapper, async_generator_wrapper), the context *)
(* extraction (get_context, get_new_context, find_span) and the log record *)
(* helpers (set_stacktrace_input_meta, set_stacktrace_output, to_json_obj).*)
(*                                                                         *)
(* One thread runs wrapped callables.  A call of a plain or coroutine      *)
(* function runs the wrapper's prologue, the body (which may call wrapped  *)
(* callables itself) and the wrapper's epilogue.  A call of a generator or *)
(* async generator function only makes the generator object; the prologue  *)
(* runs at the first next(), the epilogue at exhaustion, raise or close(). *)
(* The ambient context is the value of the single context variable of the  *)
(* thread: attach() replaces it and returns the old value as token,        *)
(* detach(token) puts the token's value back.                              *)
(*                                                                         *)
(* Further parts: end_span_recursive as a step of the running code, the    *)
(* log handler's stream failing, clean_empty on nested structures, and     *)
(* async_to_json_obj / to_json_obj on async iterators and plain values.    *)
(*                                                                         *)
(* Threads: sync_wrapper statement by statement on the record stack_trace  *)
(* its calls share; R2Client.__new__ (database/r2_client.py) statement by  *)
(* statement; the wrapper of PrometheusMetrics.track_function_metrics      *)
(* (metrics/prometheus_metrics.py), with its two siblings of               *)
(* metrics/metrics.py and metrics/decorators.py.                           *)
(*                                                                         *)
(* Outside the tracing layer: HttpLoggingMiddleware.dispatch               *)
(* (middleware/http_logging.py), AuthMiddleware.dispatch and               *)
(* AuthDependency.__call__ (middleware/auth.py), each from await to await, *)
(* and CommonUtils.divide_chunks (common/common_utils.py).                 *)
(***************************************************************************)
EXTENDS Integers, Sequences, FiniteSets, Bags, TLC

\* ------------------------------------------------------------- bounds
\* Wrapped invocations made in one run.
MaxCalls == 3
\* Elements a wrapped producer yields at most.
MaxYield == 2
\* Generator objects made in one run.
MaxGens == 2
\* Elements of a list given to clean_empty.
MaxWidth == 2
\* Applications of clean_empty to one structure.
MaxRuns == 2

\* The wrapped callables (decorator applications).
Funcs == {1, 2}

Max(x, y) == IF x >= y THEN x ELSE y

\* ------------------------------------------------------------- values
\* Argument / result values: a value of each type to_json_obj lists (a str,
\* a bool, an int, a float, a list, a tuple, a set, a dict), an object of no
\* listed type, None, a pydantic model whose model_dump_json works, and one
\* whose model_dump_json raises.
Primitives == {"ok", "True", "int", "float", "list", "tuple", "set", "dict"}
Values == Primitives \cup {"obj", "None", "model", "badmodel"}
\* What the bodies of the model return or yield: a primitive, or a model (the
\* value a supplied is_output_error predicate flags).
Results == {"ok", "model"}
\* Python's None as a snapshot value.
None == "None"

\* to_json_obj (lines 99-107): a BaseModel goes through its JSON form ("" when
\* that raises), the listed primitive and container types pass unchanged, every
\* other value falls off the if/elif and gives None.
to_json_obj_NoCatch(arg) ==
    IF arg = "model" THEN "model_json"
    ELSE IF arg = "badmodel" THEN "raises"
    ELSE IF arg \in Primitives THEN arg
    ELSE None
to_json_obj(arg) ==
    IF arg = "model" THEN "model_json"
    ELSE IF arg = "badmodel" THEN ""
    ELSE IF arg \in Primitives THEN arg
    ELSE None

\* custom_serializer (lines 381-388): the cleaned attribute mapping of an
\* object that has one, str(obj) otherwise.
custom_serializer(obj) == IF obj = "obj" THEN "obj_attrs" ELSE obj

\* Bound of the length of an async iterator given as argument.
MaxLen == 3

\* An async iterator given as argument: items are the elements it emits, pos
\* how many were taken from it; val is the argument ("aiter", or a value of
\* Values when the argument is no iterator); arg is what args[k] holds (the
\* source iterator or the second copy of tee), buf what that copy still
\* yields; snap is the snapshot returned, seen what the wrapped callable has
\* consumed; via is how async_to_json_obj was called.
NoIter ==
    [val |-> "None", items |-> <<>>, pos |-> 0, arg |-> "source", buf |-> <<>>,
     snap |-> "unset", seen |-> <<>>, via |-> "none", phase |-> "new"]

\* tee(arg, 2) (line 87): what the second copy yields once the first copy has
\* been drained: every element the source had left.
TeeBuffer_Shared(items, pos) == <<>>
TeeBuffer(items, pos) == SubSeq(items, pos + 1, Len(items))

\* async_to_json_obj (lines 85-96); withArgs says whether k and args are given.
async_to_json_obj(it, withArgs) ==
    IF it.val = "aiter" /\ withArgs
    THEN LET values == SubSeq(it.items, it.pos + 1, Len(it.items))
         IN  [it EXCEPT !.arg = "copy",
                        !.buf = TeeBuffer(it.items, it.pos),
                        !.pos = Len(it.items),
                        !.snap = IF values # <<>> THEN to_json_obj(values[Len(values)])
                                                  ELSE ""]
    ELSE [it EXCEPT !.snap = to_json_obj(it.val)]

\* ------------------------------------------------------------ contexts
\* Span references: 0 is INVALID_SPAN, 1..MaxCalls are the spans of the arena,
\* negative numbers are NonRecordingSpans of remote parents.
INVALID_SPAN == 0
\* The span extract() builds from a carrier's traceparent header.
RemoteCarrier == 0 - 1
\* The span extract() builds from the traceparent of a second carrier.
RemoteCarrier2 == 0 - 3
\* The span held by a non-empty input_context.
RemoteInput == 0 - 2
\* The context has no entry under _SPAN_KEY.
NoKey == 0 - 9

\* A Context: the entry under _SPAN_KEY and the bag of spans stored under
\* create_key("current-span") keys.
EmptyCtx == [span |-> NoKey, regs |-> EmptyBag]
RemoteCtx(r) == [span |-> r, regs |-> EmptyBag]

\* bool(context): a Context is a dict, false when it has no entry.
Truthy(ctx) == ctx.span # NoKey \/ ctx.regs # EmptyBag

\* trace.get_current_span(context)
CurrentSpan(ctx) == IF ctx.span = NoKey THEN INVALID_SPAN ELSE ctx.span

\* set_span_in_context(span, context)
set_span_in_context(span, ctx) == [ctx EXCEPT !.span = span]

\* set_value(create_key("current-span"), span): one more entry, under a new key.
register_span(span, ctx) == [ctx EXCEPT !.regs = @ (+) SetToBag({span})]

\* find_span that finds no entry.
find_span_Never(span, ctx) == FALSE
\* find_span (lines 247-251): some entry other than _SPAN_KEY holds the span.
find_span(span, ctx) == BagIn(span, ctx.regs)

\* get_new_context (lines 236-244)
get_new_context(amb) ==
    LET span == CurrentSpan(amb)
    IN  IF find_span(span, amb)
        THEN set_span_in_context(span, amb)
        ELSE set_span_in_context(span, register_span(span, amb))

\* extract(arg.headers): a fresh context, holding the remote parent when the
\* headers carry a traceparent.
extract(carrier) ==
    IF carrier = "req_tp" THEN RemoteCtx(RemoteCarrier)
    ELSE IF carrier = "req_tp2" THEN RemoteCtx(RemoteCarrier2)
    ELSE EmptyCtx

IsRequest(v) == v \in {"req_tp", "req_tp2", "req_plain"}

\* ----------------------------------------------------------- arguments
\* An argument list: the declared names of the positional parameters, the
\* positional values, the keyword arguments in call order, and the declared
\* parameters the call leaves to their default values.
ArgLists == <<
    [names |-> <<"a">>, pos |-> <<"ok">>, kw |-> <<>>, dflt |-> {}],
    [names |-> <<"a">>, pos |-> <<"obj">>,
     kw |-> << <<"config", "cfg_empty">>, <<"context", "ctx_arg">> >>, dflt |-> {}],
    [names |-> <<"a", "request">>, pos |-> <<"ok", "req_tp">>, kw |-> <<>>, dflt |-> {}],
    [names |-> <<"a">>, pos |-> <<"ok">>, kw |-> << <<"config", "cfg_none">> >>,
     dflt |-> {}],
    [names |-> <<"a">>, pos |-> <<"model">>,
     kw |-> << <<"request", "req_plain">>, <<"config", "cfg_meta">> >>,
     dflt |-> {<<"limit", "int">>}],
    [names |-> <<"a", "request">>, pos |-> <<"ok", "req_tp">>,
     kw |-> << <<"upstream", "req_tp2">> >>, dflt |-> {}]
>>
ArgIds == DOMAIN ArgLists

RECURSIVE FirstRequest(_)
\* The first Request of a sequence of values, "" when it holds none.
FirstRequest(vals) ==
    IF vals = <<>> THEN ""
    ELSE IF IsRequest(Head(vals)) THEN Head(vals)
    ELSE FirstRequest(Tail(vals))

KwValues(kw) == [i \in DOMAIN kw |-> kw[i][2]]

\* get_context (lines 218-233): the first positional Request, then overwritten
\* by the first keyword Request; get_new_context when the result is falsy.
get_context(a, amb) ==
    LET p == FirstRequest(a.pos)
        k == FirstRequest(KwValues(a.kw))
        c1 == IF p = "" THEN EmptyCtx ELSE extract(p)
        c2 == IF k = "" THEN c1 ELSE extract(k)
    IN  IF Truthy(c2) THEN c2 ELSE get_new_context(amb)

\* signature.bind(*args, **kwargs) without apply_defaults().
Bound_NoDefaults(a) ==
    {<<a.names[i], a.pos[i]>> : i \in DOMAIN a.pos}
        \cup {<<a.kw[i][1], a.kw[i][2]>> : i \in DOMAIN a.kw}
\* signature.bind(*args, **kwargs), apply_defaults(), .arguments as a set of
\* <<name, value>>
Bound(a) ==
    {<<a.names[i], a.pos[i]>> : i \in DOMAIN a.pos}
        \cup {<<a.kw[i][1], a.kw[i][2]>> : i \in DOMAIN a.kw}
        \cup a.dflt

\* arg.get of a config argument raises when the argument is no mapping.
ConfigRaises(a) == \E b \in Bound(a) : b[1] = "config" /\ b[2] = "cfg_none"

\* to_json_string (lines 403-408): a str is returned as it is, any other
\* value as the JSON text of its cleaned form, custom_serializer serving for
\* what the encoder cannot write.
to_json_string(v) ==
    IF v = "ok" THEN v
    ELSE IF v = "obj" THEN "obj_attrs_json"
    ELSE IF v = "int" THEN "int_json"
    ELSE "json"

\* arg.get("metadata") of a config argument: the mapping of cfg_meta holds a
\* str and an int, the other configs have none.
RawMetadata(a) ==
    IF \E b \in Bound(a) : b[1] = "config" /\ b[2] = "cfg_meta"
    THEN {<<"meta_k", "ok">>, <<"meta_n", "int">>} ELSE {}

\* The metadata entries of a config argument as set on the span (lines
\* 157-159): span.set_attribute(meta_k, to_json_string(meta_v)).
Metadata(a) == {<<m[1], to_json_string(m[2])>> : m \in RawMetadata(a)}

\* The inputs dict of set_stacktrace_input_meta (lines 155-163, 119-127).
InputSnapshot_Raw(a) == Bound(a)
InputSnapshot(a) ==
    {<<b[1], to_json_obj(b[2])>> : b \in {x \in Bound(a) : x[1] \notin {"config", "context"}}}

\* ------------------------------------------------------ configurations
Shapes == {"sync", "async", "gen", "asyncgen"}
IsProducer(shape) == shape \in {"gen", "asyncgen"}

\* What decorator is applied to, as inspect tells callables apart: a plain
\* function, a coroutine function, a generator function, an async generator
\* function, or another callable (a class, a partial object, an object with
\* __call__).
Callables ==
    {"function", "coroutinefunction", "generatorfunction", "asyncgenfunction",
     "callable"}

\* The dispatch without its third branch.
decorator_NoAsyncGen(func) ==
    IF func = "coroutinefunction" THEN "async"
    ELSE IF func = "generatorfunction" THEN "gen"
    ELSE "sync"
\* decorator's dispatch (lines 360-367): async_wrapper for what
\* iscoroutinefunction accepts, generator_wrapper for isgeneratorfunction,
\* async_generator_wrapper for isasyncgenfunction, sync_wrapper otherwise.
decorator(func) ==
    IF func = "coroutinefunction" THEN "async"
    ELSE IF func = "generatorfunction" THEN "gen"
    ELSE IF func = "asyncgenfunction" THEN "asyncgen"
    ELSE "sync"

\* A decorator application: func is the callable, shape the wrapper decorator
\* returns for it, the other fields are the keyword arguments of
\* context_trace_function (lines 275-282); pred says whether an
\* is_output_error predicate is supplied, ictx which input_context: none, a
\* Context with no entry, or a Context holding a remote parent.
Decorated ==
    {c \in [func : Callables, shape : Shapes, trace_input : BOOLEAN,
            trace_output : BOOLEAN, pred : BOOLEAN,
            ictx : {"none", "empty", "remote"}, auto_end : BOOLEAN] :
        c.shape = decorator(c.func)}

\* The decorator applications to functions.
Configs == {c \in Decorated : c.func # "callable"}

InputContextOf(c) == IF c.ictx = "remote" THEN RemoteCtx(RemoteInput) ELSE EmptyCtx

\* context = input_context if input_context else get_context(args, kwargs)
\* (lines 291, 309, 327, 345)
ResolveContext(c, a, amb) ==
    IF c.ictx # "none" /\ Truthy(InputContextOf(c))
    THEN InputContextOf(c)
    ELSE get_context(a, amb)

\* The supplied is_output_error predicate of the model flags a model result.
IsErr(v) == v = "model"

\* --------------------------------------------------------------- state
VARIABLES
    cfg,          \* wrapped callable -> its configuration (set by the decorator)
    stack_trace,  \* wrapped callable -> the dict stack_trace shared by its calls
    ambient,      \* the thread's current Context
    spans,        \* the spans started so far, span id = index
    inv,          \* the invocations made so far, invocation id = index
    stack,        \* the invocations whose code is running, innermost last
    log,          \* the trace log line emitted last, and the call that emitted it
    ret,          \* the invocation that finished last, and what its caller saw
    hung,         \* the thread is in a loop of end_span_recursive that never ends
    sink,         \* the handler of the trace logger can write its stream
    clean,        \* a structure given to clean_empty, and the results so far
    iter,         \* an async iterator given to async_to_json_obj, and its copies
    singleton,    \* R2Client._instance, the objects made, the threads in __new__
    metrics,      \* the counter of track_function_metrics and the call it tracks
    threads,      \* the threads that run sync_wrapper of one wrapped function
    http,         \* the request HttpLoggingMiddleware handles, and its log
    auth,         \* the request AuthMiddleware or AuthDependency handles
    chunks        \* a list given to divide_chunks, and the result

vars == <<cfg, stack_trace, ambient, spans, inv, stack, log, ret, hung, sink,
          clean, iter, singleton, metrics, threads, http, auth, chunks>>

\* The state of the middlewares and of divide_chunks.
outer == <<http, auth, chunks>>
\* The state outside context_trace_func.py's single-thread wrappers.
aside == <<singleton, metrics, threads, outer>>
\* What no step of a wrapper changes.
rest == <<cfg, hung, sink, clean, iter, aside>>
\* The state of the wrappers.
wrappers == <<cfg, stack_trace, ambient, spans, inv, stack, log, ret, hung, sink>>

\* stack_trace = {"operation_name": operation_name} (line 286)
NewRecord == [keys |-> {"operation_name"}, input |-> {}, output |-> ""]

NoOutcome == [kind |-> "none", val |-> ""]

NoLog == [by |-> 0, kind |-> "none", aid |-> 0, line |-> NewRecord]

\* by is the invocation; fout is what the wrapped callable did and out what the
\* caller of the wrapper observed; made / got are the elements a producer
\* yielded / the caller received and left the number it had still to yield;
\* last is the wrapper's variable result; nlog counts the trace log lines of
\* the invocation.
NoReturn ==
    [by |-> 0, fout |-> NoOutcome, out |-> NoOutcome, made |-> <<>>, got |-> <<>>,
     left |-> 0, last |-> None, nlog |-> 0]

\* ---------------------------------------------------------- structures
\* A nested structure of dicts, lists and scalars: t is its type (none, int,
\* list, dict), v its elements in order (the values of a dict, each with its
\* key k), k its key when it is the value of a dict entry.
Node(t, v) == [k |-> "", t |-> t, v |-> v]
NoneNode == Node("none", <<>>)
Scalars == {NoneNode, Node("int", <<>>)}
WithKey(n, k) == [n EXCEPT !.k = k]

\* The lists of at most MaxWidth elements of L.
ListsOf(L) == UNION {[1..n -> L] : n \in 0..MaxWidth}
\* The dicts over the keys a and b with values in L.
DictsOf(L) ==
    {<<>>} \cup {<<WithKey(x, "a")>> : x \in L} \cup {<<WithKey(x, "b")>> : x \in L}
           \cup {<<WithKey(x, "a"), WithKey(y, "b")>> : x \in L, y \in L}
Nested(L) ==
    Scalars \cup {Node("list", v) : v \in ListsOf(L)} \cup {Node("dict", v) : v \in DictsOf(L)}
\* The structures with at most two levels of containers.
Docs == Nested(Nested(Scalars))

IsEmptyList(n) == n.t = "list" /\ n.v = <<>>
IsEmptyDict(n) == n.t = "dict" /\ n.v = <<>>

RECURSIVE clean_empty_FilterFirst(_)
\* clean_empty with the filter applied to the elements before they are cleaned.
clean_empty_FilterFirst(d) ==
    IF d.t \notin {"dict", "list"} THEN d
    ELSE LET keep(c) == IF d.t = "list" THEN ~IsEmptyList(c) /\ c.t # "none"
                                        ELSE c.t # "none" /\ ~IsEmptyDict(c)
             kept == SelectSeq(d.v, keep)
         IN  [d EXCEPT !.v = [i \in DOMAIN kept |-> clean_empty_FilterFirst(kept[i])]]

RECURSIVE clean_empty(_)
\* clean_empty (lines 372-378): a list keeps its cleaned elements that are
\* neither [] nor None, a dict its cleaned values that are neither None nor {}.
clean_empty(d) ==
    IF d.t \notin {"dict", "list"} THEN d
    ELSE LET cs == [i \in DOMAIN d.v |-> clean_empty(d.v[i])]
             keep(c) == IF d.t = "list" THEN ~IsEmptyList(c) /\ c.t # "none"
                                        ELSE c.t # "none" /\ ~IsEmptyDict(c)
         IN  [d EXCEPT !.v = SelectSeq(cs, keep)]

\* No structure was given to clean_empty.
\* doc is the structure, runs the number of times clean_empty was applied,
\* out the last result (doc before the first), prev the result before.
NoClean == [doc |-> NoneNode, runs |-> 0, out |-> NoneNode, prev |-> NoneNode]

\* ----------------------------------------------------------- singleton
\* Threads that construct R2Client (r2_client.py) or R2 (r2.py).
Callers == {1, 2}
\* Constructor calls one thread makes.
MaxNew == 2

\* instance is the class attribute _instance (0 is None, otherwise the object),
\* inits the number of _initialize calls made on each object allocated so far,
\* thr the position of each thread in __new__ and the objects its constructor
\* calls returned.
NoSingleton ==
    [instance |-> 0, inits |-> <<>>,
     thr |-> [t \in Callers |-> [pc |-> "idle", got |-> <<>>]]]

\* ------------------------------------------------------------- metrics
\* Calls of a function wrapped by track_function_metrics in one run.
MaxTracked == 3
\* The functions track_function_metrics is applied to: a plain function and a
\* coroutine function.
Kinds == {"sync", "async"}
\* What the wrapped function does when it runs: it returns a value of Results
\* or raises.
Plans == [kind : {"ret"}, val : Results] \cup {[kind |-> "exc", val |-> "ValueError"]}

\* What the wrapped function does when the task that awaits it is cancelled.
Cancelled == [kind |-> "exc", val |-> "CancelledError"]
\* The exception a metric object raises when it fails (labels(), inc() or
\* observe()).
SinkError == [kind |-> "exc", val |-> "SinkError"]

\* The three track_function_metrics: the method of PrometheusMetrics
\* (prometheus_metrics.py), the method of MetricsManager (metrics.py) and the
\* function of decorators.py, which is given the metrics object: a
\* PrometheusMetrics (as its signature says) or a MetricsManager.
Impls ==
    {[impl |-> "prometheus", obj |-> "PrometheusMetrics"],
     [impl |-> "manager", obj |-> "MetricsManager"],
     [impl |-> "decorators", obj |-> "PrometheusMetrics"],
     [impl |-> "decorators", obj |-> "MetricsManager"]}

\* Where the sink fails while the finally block records: nowhere, at the
\* counter (labels() or inc()), or at the histogram (labels() or observe()).
SinkFailures == {"none", "count", "observe"}

\* downstream_request_count and downstream_request_time per status label
\* (prometheus_metrics.py lines 29-40), both empty, and no call made: pc is the
\* position of the call in wrapper, calls the number of calls made, kind and
\* fout the wrapped function and what it did, success the wrapper's variable,
\* pending the outcome that leaves the try block, out what the caller holds.
\* impl and obj are the implementation and the class of the metrics object,
\* errors is workflow_error_count, failed the number of "Failed to record
\* metrics" messages, broken whether the sink has failed during the call.
NoMetrics ==
    [pc |-> "idle", calls |-> 0, kind |-> "sync", fout |-> NoOutcome,
     success |-> FALSE, pending |-> NoOutcome, out |-> NoOutcome,
     count |-> [status \in {"success", "error"} |-> 0],
     time |-> [status \in {"success", "error"} |-> 0],
     status |-> "", impl |-> "prometheus", obj |-> "PrometheusMetrics",
     errors |-> 0, failed |-> 0, broken |-> FALSE]
\* ------------------------------------------------------------- threads
\* Threads that call one wrapped blocking function at the same time.
Workers == {1, 2}
\* Calls one thread makes.
MaxJobs == 2

\* No trace line was emitted: kind is input or output, aid and res are the
\* argument list and the result of the invocation that emitted the line, rec
\* is what the line carries (the record as it was when the line was formatted).
NoLine == [kind |-> "none", aid |-> 0, res |-> None, rec |-> NewRecord]

\* A thread that runs no call: pc is its position in sync_wrapper, jobs the
\* calls it has made, aid its argument list, result the wrapper's variable,
\* ambient the thread's current Context, span its span and tok the context
\* attach made current, line the trace line it emitted last, fout what the
\* wrapped function did and out what the caller of the wrapper observed.
NoThreads ==
    [t \in Workers |->
        [pc |-> "idle", jobs |-> 0, aid |-> 0, result |-> None, ambient |-> EmptyCtx,
         span |-> 0, tok |-> EmptyCtx, line |-> NoLine, fout |-> NoOutcome,
         out |-> NoOutcome]]

\* ---------------------------------------------------------- middleware
\* Requests one middleware handles in one run.
MaxRequests == 3
\* status.HTTP_500_INTERNAL_SERVER_ERROR
HTTP_500_INTERNAL_SERVER_ERROR == 500
\* The status code of the HTTPException the auth middleware raises.
Unauthorized == 401

\* request.url.path: the two health-check paths and another one.
Paths == {"/", "/admin/metrics", "/api"}
\* request.client: an address, or None.
Clients == {"addr", "none"}

\* What call_next(request) does: it returns a response with a status code, or
\* raises an HTTPException with a status code, another Exception, or (the
\* task being cancelled) CancelledError.
NoResult == [kind |-> "none", code |-> 0]
Downstreams ==
    {[kind |-> "response", code |-> 200], [kind |-> "response", code |-> 404],
     [kind |-> "HTTPException", code |-> 404], [kind |-> "Exception", code |-> 0],
     [kind |-> "CancelledError", code |-> 0]}

\* No request was handled: pc is the position in dispatch, reqs the number of
\* requests, path and client the request, down what call_next did, status the
\* status code given to log_request, calls the calls of log_request for this
\* request, entry whether the logger got an entry for it, entries the entries
\* of all requests, out what the caller of dispatch observed.
NoHttp ==
    [pc |-> "idle", reqs |-> 0, path |-> "", client |-> "", down |-> NoResult,
     status |-> 0, calls |-> 0, entry |-> FALSE, entries |-> 0, out |-> NoResult]

\* request.headers.get("authorization"): None, an empty string, or a token.
Headers == {"missing", "empty", "token"}
\* What get_user_info does (auth.py lines 6-13): None for a status other than
\* 200, response.json() for 200 (an empty or a non-empty record), or the
\* exception of the HTTP client when the call fails.
Verifications == {"none", "empty", "user", "raises"}
\* AuthMiddleware.dispatch or AuthDependency.__call__
Vias == {"middleware", "dependency"}

\* No request was handled: via, header and verified are the handler, the
\* header and what get_user_info did ("" when it was not called), user_info
\* is request.state.user_info, passed whether the request was let through
\* (call_next invoked, or the dependency returned), out what the caller of the
\* handler observed; lookups and nexts count the calls of get_user_info and
\* of call_next of all requests.
NoAuth ==
    [pc |-> "idle", reqs |-> 0, via |-> "", header |-> "", verified |-> "",
     user_info |-> "unset", passed |-> FALSE, out |-> NoResult,
     lookups |-> 0, nexts |-> 0]

\* ------------------------------------------------------- divide_chunks
\* Length of a list given to divide_chunks, and number of parts asked for.
MaxList == 4
MaxParts == 4
Elems == {"a", "b"}
Lists == UNION {[1..k -> Elems] : k \in 0..MaxList}

\* divide_chunks (common_utils.py lines 81-86): chunk_size is len(lst) // n
\* plus one when the division leaves a remainder; the chunks are the slices
\* lst[i:i + chunk_size] for i in range(0, len(lst), chunk_size), and range
\* raises ValueError for a step of zero.
divide_chunks(lst, n) ==
    LET chunk_size == (Len(lst) \div n) + (IF Len(lst) % n > 0 THEN 1 ELSE 0)
    IN  IF chunk_size = 0 THEN [raises |-> "ValueError", parts |-> <<>>]
        ELSE [raises |-> "",
              parts |-> [k \in 1..((Len(lst) + chunk_size - 1) \div chunk_size) |->
                            SubSeq(lst, (k - 1) * chunk_size + 1,
                                   IF k * chunk_size < Len(lst) THEN k * chunk_size
                                                                ELSE Len(lst))]]

\* No list was given to divide_chunks.
NoChunks == [lst |-> <<>>, n |-> 1, phase |-> "none", out |-> [raises |-> "", parts |-> <<>>]]

\* No call was made yet.
Quiet ==
    /\ stack_trace = [f \in Funcs |-> NewRecord]
    /\ ambient = EmptyCtx
    /\ spans = <<>>
    /\ inv = <<>>
    /\ stack = <<>>
    /\ log = NoLog
    /\ ret = NoReturn
    /\ hung = FALSE
    /\ sink = TRUE
    /\ singleton = NoSingleton
    /\ metrics = NoMetrics
    /\ threads = NoThreads
    /\ http = NoHttp
    /\ auth = NoAuth
    /\ chunks = NoChunks

InitWith(C1, C2) ==
    /\ cfg \in [{1} -> C1] \cup [Funcs -> C2]
    /\ Quiet
    /\ clean = NoClean
    /\ iter = NoIter

\* ------------------------------------------------------------- helpers
Top == IF stack = <<>> THEN 0 ELSE stack[Len(stack)]
Pop == SubSeq(stack, 1, Len(stack) - 1)

\* The code that is running: the driver (no invocation) or a body.
Running(i) == ~hung /\ i = Top /\ i # 0 /\ inv[i].st = "run"

\* No wrapped callable is running: the code that runs is the driver's.
Idle == ~hung /\ Top = 0

IsEnded(sp) == sp.ends > 0

TraceOf(ref) == IF ref < 0 THEN ref ELSE spans[ref].trace

\* tracer.start_span(name, context): the parent is the context's current span
\* when that is valid, a root span with a trace id of its own otherwise.
StartSpan(ctx, sid, owner) ==
    LET p == CurrentSpan(ctx)
    IN  [trace |-> IF p = INVALID_SPAN THEN sid ELSE TraceOf(p),
         parent |-> p, ends |-> 0, err |-> FALSE, oerr |-> FALSE,
         attrs |-> {}, owner |-> owner]

\* span.end(): sets end_time (a call on an ended span changes nothing but is
\* counted here).
EndSpan_Noop(sp) == sp
EndSpan(sp) == [sp EXCEPT !.ends = @ + 1]

\* use_span's finally: if end_on_exit: span.end()   (end_on_exit=auto_end,
\* lines 296, 314, 332, 350)
EndOnExit_Never(c, sp) == sp
\* use_span that ends the span whatever end_on_exit is.
EndOnExit_Always(c, sp) == EndSpan(sp)
EndOnExit(c, sp) == IF c.auto_end THEN EndSpan(sp) ELSE sp

\* use_span's except: the exception is recorded and the status set to ERROR
\* on a span that is still recording.
MarkError_Never(sp, recorded) == sp
MarkError(sp, recorded) ==
    IF recorded /\ ~IsEnded(sp) THEN [sp EXCEPT !.err = TRUE] ELSE sp

\* span.set_attribute on a span that is still recording.
SetAttrs(sp, kv) == IF IsEnded(sp) THEN sp ELSE [sp EXCEPT !.attrs = @ \cup kv]

\* set_stacktrace_input_meta, the record part (lines 177, 140)
RecordInput(rec, a) ==
    [rec EXCEPT !.keys = @ \cup {"input"}, !.input = InputSnapshot(a)]

\* set_stacktrace_output, the record part (lines 192-194)
RecordOutput(rec, result) ==
    [keys |-> (rec.keys \ {"input"}) \cup {"output"}, input |-> {},
     output |-> to_json_obj(result)]

\* set_stacktrace_output that flags the span only when it logs the output.
FlagOutput_WhenLogged(c, sp, result) ==
    IF c.trace_output /\ c.pred /\ IsErr(result) /\ ~IsEnded(sp)
    THEN [sp EXCEPT !.oerr = TRUE] ELSE sp
\* set_stacktrace_output, the span part (lines 189-190)
FlagOutput(c, sp, result) ==
    IF c.pred /\ IsErr(result) /\ ~IsEnded(sp) THEN [sp EXCEPT !.oerr = TRUE] ELSE sp

\* log_info (lines 63-82): logger.info hands the record to the handler, which
\* writes the line when its stream can be written.
Emitted(enabled) == enabled /\ sink

\* Whether log_info raises when the handler cannot write: logging's
\* Handler.emit catches the error (handleError), logger.info returns.
LogRaises_Propagated == ~sink
LogRaises == FALSE

\* What the wrapper hands to its caller for what the wrapped callable
\* produced: return result (lines 304, 322), yield value (lines 339, 357).
Forward_Snapshot(v) == to_json_obj(v)
Forward(v) == v

\* The wrapper's for loop over func(*args, **kwargs) ends when the producer
\* has no element left (lines 337, 355).
Exhausted_Early(fr) == TRUE
Exhausted(fr) == fr.left = 0

\* An invocation: st is new (a generator object whose code has not run), run
\* (the body is running), susp (the wrapper is suspended at its yield) or done;
\* tok is the context attach(context) made current, which use_span's detach
\* puts back; left is how many elements the producer still yields; made / got
\* are the elements the producer has yielded / the caller has received; last
\* is the wrapper's variable result; nlog counts the trace log lines of the
\* invocation.
NewFrame(f) ==
    [f |-> f, st |-> "new", span |-> 0, tok |-> EmptyCtx,
     left |-> 0, made |-> <<>>, got |-> <<>>, last |-> None, nlog |-> 0]

\* A finished invocation keeps its callable and its span.
Finished(fr) == [NewFrame(fr.f) EXCEPT !.st = "done", !.span = fr.span]

\* What the caller saw of invocation i, whose frame was fr.
Returned(i, fr, fout, out, nlog) ==
    [by |-> i, fout |-> fout, out |-> out, made |-> fr.made, got |-> fr.got,
     left |-> fr.left, last |-> fr.last, nlog |-> nlog]

\* ------------------------------------------------------------ prologue
\* The wrapper from its entry to the call of func: list(args), the context,
\* attach(context), start_as_current_span, the input capture (lines 290-298,
\* 308-316, 326-334, 344-352).  i is the invocation, fr its frame, aid the
\* argument list, left the number of elements the producer is going to yield.
Enter(i, fr, aid, left) ==
    LET c == cfg[fr.f]
        a == ArgLists[aid]
        context == ResolveContext(c, a, ambient)
        sid == Len(spans) + 1
        sp0 == StartSpan(context, sid, i)
        inside == set_span_in_context(sid, context)
        rec == RecordInput(stack_trace[fr.f], a)
        put(new) == [k \in 1..Max(i, Len(inv)) |-> IF k = i THEN new ELSE inv[k]]
    IN  IF c.trace_input /\ (ConfigRaises(a) \/ LogRaises)
        THEN \* arg.get raises AttributeError inside the with block
             /\ spans' = Append(spans, EndOnExit(c, MarkError(sp0, TRUE)))
             /\ ambient' = context
             /\ inv' = put(Finished([fr EXCEPT !.span = sid]))
             /\ ret' = Returned(i, fr, NoOutcome,
                                [kind |-> "exc",
                                 val |-> IF ConfigRaises(a) THEN "AttributeError"
                                                            ELSE "OSError"], 0)
             /\ UNCHANGED <<stack_trace, stack, log>>
        ELSE /\ spans' = Append(spans,
                    IF c.trace_input THEN SetAttrs(sp0, Metadata(a)) ELSE sp0)
             /\ ambient' = inside
             /\ stack_trace' =
                    IF c.trace_input THEN [stack_trace EXCEPT ![fr.f] = rec]
                    ELSE stack_trace
             /\ log' = IF Emitted(c.trace_input)
                       THEN [by |-> i, kind |-> "input", aid |-> aid, line |-> rec]
                       ELSE log
             /\ inv' = put([fr EXCEPT !.st = "run", !.span = sid, !.tok = context,
                                      !.left = left,
                                      !.nlog = IF Emitted(c.trace_input) THEN 1 ELSE 0])
             /\ stack' = Append(stack, i)
             /\ UNCHANGED ret

\* ------------------------------------------------------------ epilogue
\* The wrapper after func has produced its result: set_stacktrace_output, then
\* the exit of the with block (detach, end_on_exit) (lines 302-304, 320-322,
\* 340, 358).  outcome is what the wrapped callable did, result what
\* set_stacktrace_output is given.
ExitNormal(i, outcome, result) ==
    LET fr == inv[i]
        c == cfg[fr.f]
        rec == RecordOutput(stack_trace[fr.f], result)
        sp == FlagOutput(c, spans[fr.span], result)
    IN  /\ stack_trace' =
               IF c.trace_output THEN [stack_trace EXCEPT ![fr.f] = rec]
               ELSE stack_trace
        /\ log' = IF Emitted(c.trace_output)
                  THEN [by |-> i, kind |-> "output", aid |-> 0, line |-> rec]
                  ELSE log
        /\ spans' = [spans EXCEPT ![fr.span] = EndOnExit(c, sp)]
        /\ ambient' = fr.tok
        /\ inv' = [inv EXCEPT ![i] = Finished(fr)]
        /\ ret' = Returned(i, fr, outcome, [outcome EXCEPT !.val = Forward(outcome.val)],
                           IF Emitted(c.trace_output) THEN fr.nlog + 1 ELSE fr.nlog)
        /\ stack' = Pop

\* An exception leaves the with block: use_span detaches, records the
\* exception on the span when recorded, ends the span under end_on_exit, and
\* the exception goes on to the caller.  thrown says whether the wrapped
\* callable raised it (or the consumer's close() did).
ExitRaise(i, exc, recorded, thrown) ==
    LET fr == inv[i]
        c == cfg[fr.f]
        outcome == [kind |-> "exc", val |-> exc]
    IN  /\ spans' = [spans EXCEPT ![fr.span] = EndOnExit(c, MarkError(@, recorded))]
        /\ ambient' = fr.tok
        /\ inv' = [inv EXCEPT ![i] = Finished(fr)]
        /\ ret' = Returned(i, fr, IF thrown THEN outcome ELSE NoOutcome, outcome, fr.nlog)
        /\ UNCHANGED <<stack_trace, log>>

\* Whether use_span sets the error status for an exception that is no
\* Exception (CancelledError, GeneratorExit): opentelemetry-api records
\* BaseException in some releases and only Exception in the others.
BaseExceptionRecorded == BOOLEAN

\* ------------------------------------------------------------- actions
\* The running code calls wrapped callable f with argument list aid: a plain
\* or coroutine function (the coroutine is awaited at once) enters its wrapper.
Call(f, aid) ==
    /\ f \in DOMAIN cfg
    /\ Len(inv) < MaxCalls
    /\ Idle \/ Running(Top)
    /\ ~IsProducer(cfg[f].shape)
    /\ Enter(Len(inv) + 1, NewFrame(f), aid, 0)
    /\ UNCHANGED rest

\* A call of a generator or async generator function returns the generator
\* object; no code of the wrapper has run yet.  The arguments are first read
\* at the first next(): the model draws them there.
CallProducer(f) ==
    /\ f \in DOMAIN cfg
    /\ Len(inv) < MaxCalls
    /\ Idle \/ Running(Top)
    /\ IsProducer(cfg[f].shape)
    /\ Cardinality({k \in DOMAIN inv : IsProducer(cfg[inv[k].f].shape)}) < MaxGens
    /\ inv' = Append(inv, NewFrame(f))
    /\ UNCHANGED <<rest, stack_trace, ambient, spans, stack, log, ret>>

\* The body of a plain or coroutine function returns v.
Return(i, v) ==
    /\ Running(i)
    /\ ~IsProducer(cfg[inv[i].f].shape)
    /\ ExitNormal(i, [kind |-> "ret", val |-> v], v)
    /\ UNCHANGED rest

\* The body raises an exception (an Exception subclass); a producer does so
\* where its plan says.
Raise(i) ==
    /\ Running(i)
    /\ IsProducer(cfg[inv[i].f].shape) => inv[i].left = 0
    /\ ExitRaise(i, "ValueError", TRUE, TRUE)
    /\ stack' = Pop
    /\ UNCHANGED rest

\* The awaiting task is cancelled inside the body of a coroutine function or
\* an async generator: CancelledError, a BaseException.
Cancel(i, recorded) ==
    /\ Running(i)
    /\ cfg[inv[i].f].shape \in {"async", "asyncgen"}
    /\ ExitRaise(i, "CancelledError", recorded, TRUE)
    /\ stack' = Pop
    /\ UNCHANGED rest

\* The running code asks a new generator for its first element: the wrapper's
\* prologue runs and the producer starts.
GenStart(i, aid, left) ==
    /\ i \in DOMAIN inv
    /\ Idle \/ Running(Top)
    /\ inv[i].st = "new"
    /\ Enter(i, inv[i], aid, left)
    /\ UNCHANGED rest

\* The running code asks a suspended generator for its next element: the
\* wrapper resumes after its yield.
GenNext(i) ==
    /\ i \in DOMAIN inv
    /\ Idle \/ Running(Top)
    /\ inv[i].st = "susp"
    /\ inv' = [inv EXCEPT ![i].st = "run"]
    /\ stack' = Append(stack, i)
    /\ UNCHANGED <<rest, stack_trace, ambient, spans, log, ret>>

\* The wrapped producer yields its next element: result = value; yield value
\* (lines 337-339, 355-357).  The wrapper is suspended in its with block.
Yield(i, v) ==
    /\ Running(i)
    /\ IsProducer(cfg[inv[i].f].shape)
    /\ inv[i].left > 0
    /\ inv' = [inv EXCEPT ![i].st = "susp", ![i].left = @ - 1, ![i].last = v,
                          ![i].made = Append(@, v), ![i].got = Append(@, Forward(v))]
    /\ stack' = Pop
    /\ UNCHANGED <<rest, stack_trace, ambient, spans, log, ret>>

\* The wrapped producer is exhausted: the for loop ends and the wrapper runs
\* set_stacktrace_output with the last value (None when there was none).
Exhaust(i) ==
    /\ Running(i)
    /\ IsProducer(cfg[inv[i].f].shape)
    /\ Exhausted(inv[i])
    /\ ExitNormal(i, [kind |-> "stop", val |-> ""], inv[i].last)
    /\ UNCHANGED rest

\* The consumer closes a suspended generator (close(), aclose(), or dropping
\* the last reference): GeneratorExit is thrown at the wrapper's yield.
Close(i, recorded) ==
    /\ i \in DOMAIN inv
    /\ Idle \/ Running(Top)
    /\ inv[i].st = "susp"
    /\ ExitRaise(i, "GeneratorExit", recorded, FALSE)
    /\ UNCHANGED <<rest, stack>>

\* The steps of runs that draw their argument lists from A.
NextOver(A) ==
    \/ \E f \in Funcs, aid \in A : Call(f, aid)
    \/ \E f \in Funcs : CallProducer(f)
    \/ \E i \in DOMAIN inv, v \in Results : Return(i, v)
    \/ \E i \in DOMAIN inv : Raise(i)
    \/ \E i \in DOMAIN inv, r \in BaseExceptionRecorded : Cancel(i, r)
    \/ \E i \in DOMAIN inv, aid \in A, left \in 0..MaxYield : GenStart(i, aid, left)
    \/ \E i \in DOMAIN inv : GenNext(i)
    \/ \E i \in DOMAIN inv, v \in Results : Yield(i, v)
    \/ \E i \in DOMAIN inv : Exhaust(i)
    \/ \E i \in DOMAIN inv, r \in BaseExceptionRecorded : Close(i, r)

\* One wrapped callable, no input_context, every other setting; the argument
\* lists without a carrier.
CallConfigs == {c \in Configs : c.ictx = "none"}
Init == InitWith(CallConfigs, {})
Next == NextOver({1, 4})
Spec == Init /\ [][Next]_vars

\* One wrapped callable with trace_input and trace_output enabled; argument
\* lists with values of every kind to_json_obj tells apart, a config and a
\* context parameter.
LogConfigs ==
    {c \in Configs : /\ c.trace_input /\ c.trace_output
                     /\ c.ictx = "none" /\ c.auto_end /\ ~c.pred}
InitLog == InitWith(LogConfigs, {})
NextLog == NextOver({1, 2, 5})
SpecLog == InitLog /\ [][NextLog]_vars

\* One wrapped callable that logs nothing, with every input_context; argument
\* lists with and without a request carrier.
CtxConfigs ==
    {c \in Configs : /\ ~c.trace_input /\ ~c.trace_output
                     /\ c.auto_end /\ ~c.pred}
InitCtx == InitWith(CtxConfigs, {})
NextCtx == NextOver({1, 3})
SpecCtx == InitCtx /\ [][NextCtx]_vars

\* end_span_recursive that ends the given span and returns.
Climb_GivenOnly(c, sps) ==
    [spans |-> IF sps[c].ends = 0 THEN [sps EXCEPT ![c] = EndSpan(@)] ELSE sps,
     hung |-> FALSE]

\* One wrapped callable that logs nothing and has no input_context; argument
\* lists with no carrier, with one carrier, and with a positional and a keyword
\* carrier.
CarrierConfigs == {c \in CtxConfigs : c.ictx = "none"}
InitCarrier == InitWith(CarrierConfigs, {})
NextCarrier == NextOver({1, 3, 6})
SpecCarrier == InitCarrier /\ [][NextCarrier]_vars

RECURSIVE Climb(_, _)
\* The while loop of end_span_recursive (lines 257-272) from span c on, over
\* the spans sps: the span is ended when its end_time is None; a span without
\* parent ends the loop; otherwise the entries of the current context other
\* than _SPAN_KEY are searched for a ReadableSpan whose span context is the
\* parent, and the loop goes on from it.  When no entry matches, c_span stays
\* what it is and the loop never ends.
Climb(c, sps) ==
    LET ended == IF sps[c].ends = 0 THEN [sps EXCEPT ![c] = EndSpan(@)] ELSE sps
        p == sps[c].parent
    IN  IF p = INVALID_SPAN THEN [spans |-> ended, hung |-> FALSE]
        ELSE IF p > 0 /\ BagIn(p, ambient.regs) THEN Climb(p, ended)
        ELSE [spans |-> ended, hung |-> TRUE]

\* The running code calls end_span_recursive(span) on a span it holds.
EndSpanRecursive(s) ==
    /\ Idle \/ Running(Top)
    /\ s \in DOMAIN spans
    /\ spans' = Climb(s, spans).spans
    /\ hung' = Climb(s, spans).hung
    /\ UNCHANGED <<cfg, sink, clean, iter, aside, stack_trace, ambient, inv, stack,
                   log, ret>>

\* One wrapped callable that logs nothing, with and without auto_end; argument
\* lists with and without a request carrier; end_span_recursive is called.
EndConfigs ==
    {c \in Configs : /\ ~c.trace_input /\ ~c.trace_output
                     /\ c.ictx = "none" /\ ~c.pred}
InitEnd == InitWith(EndConfigs, {})
NextEnd ==
    \/ NextOver({1, 3})
    \/ \E s \in DOMAIN spans : EndSpanRecursive(s)
SpecEnd == InitEnd /\ [][NextEnd]_vars

\* Two wrapped callables, a plain or coroutine function and a generator
\* function, with auto_end and without logging; end_span_recursive is called.
WalkConfigs ==
    {c \in Configs : /\ ~c.trace_input /\ ~c.trace_output /\ c.ictx = "none"
                     /\ ~c.pred /\ c.auto_end /\ c.shape \in {"sync", "async", "gen"}}
InitWalk ==
    /\ InitWith({}, WalkConfigs)
    /\ cfg[1].shape \in {"sync", "async"}
    /\ cfg[2].shape = "gen"
NextWalk ==
    \/ NextOver({1})
    \/ \E s \in DOMAIN spans : EndSpanRecursive(s)
SpecWalk == InitWalk /\ [][NextWalk]_vars

\* A running body goes on to its next yield, its return or its raise.
BodyStep ==
    \E i \in DOMAIN inv, v \in Results :
        Return(i, v) \/ Raise(i) \/ Yield(i, v) \/ Exhaust(i)

\* The runs of SpecEnd in which no body runs forever.  Nothing makes the
\* application call a wrapped callable, resume or close a generator, or call
\* end_span_recursive.
SpecLive == SpecEnd /\ WF_vars(BodyStep)

\* The stream of the log handler stops or starts accepting writes.
SinkChange ==
    /\ sink' = ~sink
    /\ UNCHANGED <<cfg, hung, clean, iter, aside, stack_trace, ambient, spans, inv,
                   stack, log, ret>>

\* One wrapped callable with trace_input and trace_output enabled, while the
\* log handler's stream fails and recovers.
InitSink == InitWith(LogConfigs, {})
NextSink == NextOver({1, 4}) \/ SinkChange
SpecSink == InitSink /\ [][NextSink]_vars

\* clean_empty is applied to the structure, or to its own last result.
CleanEmpty ==
    /\ clean.runs < MaxRuns
    /\ clean' = [clean EXCEPT !.runs = @ + 1, !.prev = clean.out,
                              !.out = clean_empty(clean.out)]
    /\ UNCHANGED <<wrappers, iter, aside>>

\* clean_empty on every structure of Docs.
InitClean ==
    /\ cfg = <<>>
    /\ Quiet
    /\ iter = NoIter
    /\ \E d \in Docs : clean = [doc |-> d, runs |-> 0, out |-> d, prev |-> d]
NextClean == CleanEmpty
SpecClean == InitClean /\ [][NextClean]_vars

\* async_set_stacktrace_input_meta captures the argument (line 127):
\* inputs[k] = await async_to_json_obj(arg), without k and args.
CaptureInput ==
    /\ iter.phase = "new"
    /\ iter' = [async_to_json_obj(iter, FALSE) EXCEPT !.phase = "captured",
                                                      !.via = "wrapper"]
    /\ UNCHANGED <<wrappers, clean, aside>>

\* async_to_json_obj(arg, k, args) is called with k and args.
CaptureTee ==
    /\ iter.phase = "new"
    /\ iter' = [async_to_json_obj(iter, TRUE) EXCEPT !.phase = "captured",
                                                     !.via = "direct"]
    /\ UNCHANGED <<wrappers, clean, aside>>

\* The wrapped callable takes the next element of the iterator at args[k].
Consume ==
    /\ iter.phase = "captured"
    /\ iter.val = "aiter"
    /\ \/ /\ iter.arg = "source"
          /\ iter.pos < Len(iter.items)
          /\ iter' = [iter EXCEPT !.pos = @ + 1,
                                  !.seen = Append(@, iter.items[iter.pos + 1])]
       \/ /\ iter.arg = "copy"
          /\ iter.buf # <<>>
          /\ iter' = [iter EXCEPT !.buf = Tail(@), !.seen = Append(@, Head(iter.buf))]
    /\ UNCHANGED <<wrappers, clean, aside>>

\* The iterator at args[k] is exhausted (or the argument is no iterator).
Finish ==
    /\ iter.phase = "captured"
    /\ \/ iter.val # "aiter"
       \/ iter.arg = "source" /\ iter.pos = Len(iter.items)
       \/ iter.arg = "copy" /\ iter.buf = <<>>
    /\ iter' = [iter EXCEPT !.phase = "done"]
    /\ UNCHANGED <<wrappers, clean, aside>>

\* The sequences of at most MaxLen values.
Items == UNION {[1..n -> Values] : n \in 0..MaxLen}

\* An argument of every kind: an async iterator over values, or a value.
InitJson ==
    /\ cfg = <<>>
    /\ Quiet
    /\ clean = NoClean
    /\ \/ \E xs \in Items : iter = [NoIter EXCEPT !.val = "aiter", !.items = xs]
       \/ \E v \in Values : iter = [NoIter EXCEPT !.val = v]
NextJson == CaptureInput \/ CaptureTee \/ Consume \/ Finish
SpecJson == InitJson /\ [][NextJson]_vars

\* ------------------------------------------------- R2Client.__new__
\* Thread t calls R2Client(...): line 44, if cls._instance is None.
NewCheck(t) ==
    /\ singleton.thr[t].pc = "idle"
    /\ Len(singleton.thr[t].got) < MaxNew
    /\ singleton' = [singleton EXCEPT
                        !.thr[t].pc = IF singleton.instance = 0 THEN "make" ELSE "return"]
    /\ UNCHANGED <<wrappers, clean, iter, metrics, threads, outer>>

\* Line 45: cls._instance = super(R2Client, cls).__new__(cls), a new object.
NewMake(t) ==
    /\ singleton.thr[t].pc = "make"
    /\ singleton' = [singleton EXCEPT !.inits = Append(@, 0),
                                      !.instance = Len(singleton.inits) + 1,
                                      !.thr[t].pc = "init"]
    /\ UNCHANGED <<wrappers, clean, iter, metrics, threads, outer>>

\* Line 46: cls._instance._initialize(...), on the object the class attribute
\* holds now.
NewInitialize(t) ==
    /\ singleton.thr[t].pc = "init"
    /\ singleton' = [singleton EXCEPT !.inits[singleton.instance] = @ + 1,
                                      !.thr[t].pc = "return"]
    /\ UNCHANGED <<wrappers, clean, iter, metrics, threads, outer>>

\* Line 47: return cls._instance.
NewReturn(t) ==
    /\ singleton.thr[t].pc = "return"
    /\ singleton' = [singleton EXCEPT !.thr[t].got = Append(@, singleton.instance),
                                      !.thr[t].pc = "idle"]
    /\ UNCHANGED <<wrappers, clean, iter, metrics, threads, outer>>

\* The threads of Callers construct R2Client, each up to MaxNew times.
InitSingleton == cfg = <<>> /\ Quiet /\ clean = NoClean /\ iter = NoIter
NextSingleton ==
    \E t \in Callers : NewCheck(t) \/ NewMake(t) \/ NewInitialize(t) \/ NewReturn(t)
SpecSingleton == InitSingleton /\ [][NextSingleton]_vars

\* ------------------------------------------ track_function_metrics
\* The caller calls the decorated function: wrapper is a coroutine function
\* whatever func is (line 126), so the call returns a coroutine object and no
\* code of wrapper has run.
TrackCall(kind) ==
    /\ metrics.pc = "idle"
    /\ metrics.calls < MaxTracked
    /\ metrics' = [metrics EXCEPT !.pc = "coroutine", !.calls = @ + 1, !.kind = kind,
                                  !.fout = NoOutcome, !.success = FALSE,
                                  !.pending = NoOutcome, !.status = "",
                                  !.broken = FALSE,
                                  !.out = [kind |-> "ret", val |-> "coroutine"]]
    /\ UNCHANGED <<wrappers, clean, iter, singleton, threads, outer>>

\* The caller does not await the coroutine object (a caller of a plain
\* function has no reason to): what it holds is the coroutine object.
TrackDrop ==
    /\ metrics.pc = "coroutine"
    /\ metrics' = [metrics EXCEPT !.pc = "idle"]
    /\ UNCHANGED <<wrappers, clean, iter, singleton, threads, outer>>

\* await of a value: a coroutine gives what it returns or raises, any other
\* object raises TypeError.
AwaitOf(kind, plan) ==
    IF kind = "async" \/ plan.kind = "exc" THEN plan
    ELSE [kind |-> "exc", val |-> "TypeError"]

\* The except clause the outcome of the await enters: MetricsManager's
\* `except Exception as e` has a body of its own (metrics.py lines 87-95), the
\* other two only re-raise; CancelledError is no Exception.
EntersExcept(m, outcome) ==
    m.impl = "manager" /\ outcome.kind = "exc" /\ outcome # Cancelled

\* The coroutine object is awaited: lines 127-135, result = await
\* func(*args, **kwargs); success = True; return result.
TrackAwait(plan) ==
    /\ metrics.pc = "coroutine"
    /\ metrics' = [metrics EXCEPT
                      !.pc = IF EntersExcept(metrics, AwaitOf(metrics.kind, plan))
                             THEN "except" ELSE "finally",
                      !.fout = plan,
                      !.pending = AwaitOf(metrics.kind, plan),
                      !.success = AwaitOf(metrics.kind, plan).kind = "ret"]
    /\ UNCHANGED <<wrappers, clean, iter, singleton, threads, outer>>

\* MetricsManager's except clause (metrics.py lines 87-95):
\* self.workflow_error_count.labels(...).inc(), then raise.  When the counter
\* raises, its exception leaves the clause in place of the function's.
TrackExcept(fails) ==
    /\ metrics.pc = "except"
    /\ metrics' = IF fails
                  THEN [metrics EXCEPT !.pc = "finally", !.pending = SinkError,
                                       !.broken = TRUE]
                  ELSE [metrics EXCEPT !.pc = "finally", !.errors = @ + 1]
    /\ UNCHANGED <<wrappers, clean, iter, singleton, threads, outer>>

\* metrics.get_common_labels() (decorators.py line 29): MetricsManager has the
\* method (metrics.py lines 47-52), PrometheusMetrics has none (the function
\* of prometheus_metrics.py lines 14-18 is the module's), so the call raises
\* AttributeError inside the inner try.
HasCommonLabels(m) == m.impl # "decorators" \/ m.obj = "MetricsManager"

\* The finally block (prometheus_metrics.py lines 136-146, metrics.py lines
\* 96-114, decorators.py lines 26-47): the counter and the histogram get the
\* status; an Exception on the way is logged and dropped; then the pending
\* return value or exception reaches the caller.
TrackFinally(fail) ==
    /\ metrics.pc = "finally"
    /\ LET status == IF metrics.success THEN "success" ELSE "error"
           m == [metrics EXCEPT !.pc = "idle", !.out = metrics.pending,
                                !.broken = @ \/ fail # "none"]
       IN  metrics' =
               IF ~HasCommonLabels(metrics) \/ fail = "count"
               THEN [m EXCEPT !.failed = @ + 1]
               ELSE IF fail = "observe"
               THEN [m EXCEPT !.status = status, !.count[status] = @ + 1,
                              !.failed = @ + 1]
               ELSE [m EXCEPT !.status = status, !.count[status] = @ + 1,
                              !.time[status] = @ + 1]
    /\ UNCHANGED <<wrappers, clean, iter, singleton, threads, outer>>

\* Calls of functions decorated with track_function_metrics, one at a time.
InitMetrics == cfg = <<>> /\ Quiet /\ clean = NoClean /\ iter = NoIter
NextMetrics ==
    \/ \E kind \in Kinds : TrackCall(kind)
    \/ TrackDrop
    \/ \E plan \in Plans : TrackAwait(plan)
    \/ TrackFinally("none")
SpecMetrics == InitMetrics /\ [][NextMetrics]_vars

\* Calls of coroutine functions decorated with each of the three
\* track_function_metrics, one at a time; the function returns, raises or is
\* cancelled, and the metric objects work or fail.
InitTrack ==
    /\ cfg = <<>>
    /\ stack_trace = [f \in Funcs |-> NewRecord]
    /\ ambient = EmptyCtx
    /\ spans = <<>>
    /\ inv = <<>>
    /\ stack = <<>>
    /\ log = NoLog
    /\ ret = NoReturn
    /\ hung = FALSE
    /\ sink = TRUE
    /\ clean = NoClean
    /\ iter = NoIter
    /\ singleton = NoSingleton
    /\ threads = NoThreads
    /\ http = NoHttp
    /\ auth = NoAuth
    /\ chunks = NoChunks
    /\ \E i \in Impls : metrics = [NoMetrics EXCEPT !.impl = i.impl, !.obj = i.obj]
NextTrack ==
    \/ TrackCall("async")
    \/ TrackDrop
    \/ \E plan \in Plans \cup {Cancelled} : TrackAwait(plan)
    \/ \E fails \in BOOLEAN : TrackExcept(fails)
    \/ \E fail \in SinkFailures : TrackFinally(fail)
SpecTrack == InitTrack /\ [][NextTrack]_vars

\* ------------------------------------------ sync_wrapper, by statement
\* The steps of sync_wrapper (lines 289-304) with set_stacktrace_input_meta
\* and set_stacktrace_output as the threads of Workers run them on the record
\* stack_trace[1] they share.  Every thread has a context of its own.

\* Lines 290-297 and 145-163: the context, attach, the span, the inputs dict
\* (local to the thread) and the metadata attributes.
SyncEnter(t, aid) ==
    LET th == threads[t]
        context == ResolveContext(cfg[1], ArgLists[aid], th.ambient)
        sid == Len(spans) + 1
    IN  /\ th.pc = "idle"
        /\ th.jobs < MaxJobs
        /\ spans' = Append(spans, SetAttrs(StartSpan(context, sid, t), Metadata(ArgLists[aid])))
        /\ threads' = [threads EXCEPT ![t] =
               [th EXCEPT !.pc = "store_input", !.jobs = @ + 1, !.aid = aid,
                          !.result = None, !.span = sid, !.tok = context,
                          !.ambient = set_span_in_context(sid, context),
                          !.fout = NoOutcome, !.out = NoOutcome]]
        /\ UNCHANGED <<cfg, stack_trace, ambient, inv, stack, log, ret, hung, sink,
                       clean, iter, singleton, metrics, outer>>

\* Line 177: stack_trace["input"] = inputs
StoreInput(t) ==
    /\ threads[t].pc = "store_input"
    /\ stack_trace' = [stack_trace EXCEPT ![1] = RecordInput(@, ArgLists[threads[t].aid])]
    /\ threads' = [threads EXCEPT ![t].pc = "log_input"]
    /\ UNCHANGED <<cfg, ambient, spans, inv, stack, log, ret, hung, sink,
                   clean, iter, singleton, metrics, outer>>

\* Line 178: log_info formats the record as it is now.
LogInput(t) ==
    /\ threads[t].pc = "log_input"
    /\ threads' = [threads EXCEPT ![t].pc = "body",
                                  ![t].line = [kind |-> "input", aid |-> threads[t].aid,
                                               res |-> None, rec |-> stack_trace[1]]]
    /\ UNCHANGED <<cfg, stack_trace, ambient, spans, inv, stack, log, ret, hung, sink,
                   clean, iter, singleton, metrics, outer>>

\* Line 300: result = func(*args, **kwargs); the function returns v.
RunBody(t, v) ==
    /\ threads[t].pc = "body"
    /\ threads' = [threads EXCEPT ![t].pc = "store_output", ![t].result = v,
                                  ![t].fout = [kind |-> "ret", val |-> v]]
    /\ UNCHANGED <<cfg, stack_trace, ambient, spans, inv, stack, log, ret, hung, sink,
                   clean, iter, singleton, metrics, outer>>

\* Lines 189-192: stack_trace["output"] = to_json_obj(result)
StoreOutput(t) ==
    /\ threads[t].pc = "store_output"
    /\ stack_trace' = [stack_trace EXCEPT
                          ![1].keys = @ \cup {"output"},
                          ![1].output = to_json_obj(threads[t].result)]
    /\ spans' = [spans EXCEPT ![threads[t].span] = FlagOutput(cfg[1], @, threads[t].result)]
    /\ threads' = [threads EXCEPT ![t].pc = "check"]
    /\ UNCHANGED <<cfg, ambient, inv, stack, log, ret, hung, sink,
                   clean, iter, singleton, metrics, outer>>

\* Line 193: if "input" in stack_trace
CheckInput(t) ==
    /\ threads[t].pc = "check"
    /\ threads' = [threads EXCEPT
                      ![t].pc = IF "input" \in stack_trace[1].keys THEN "delete"
                                                                   ELSE "log_output"]
    /\ UNCHANGED <<cfg, stack_trace, ambient, spans, inv, stack, log, ret, hung, sink,
                   clean, iter, singleton, metrics, outer>>

\* Line 194: del stack_trace["input"]; KeyError when the key is gone, which
\* leaves the with block (the span gets the error and is ended) and reaches
\* the caller.
DeleteInput(t) ==
    LET th == threads[t]
    IN  /\ th.pc = "delete"
        /\ IF "input" \in stack_trace[1].keys
           THEN /\ stack_trace' = [stack_trace EXCEPT ![1].keys = @ \ {"input"},
                                                      ![1].input = {}]
                /\ threads' = [threads EXCEPT ![t].pc = "log_output"]
                /\ UNCHANGED spans
           ELSE /\ spans' = [spans EXCEPT
                                ![th.span] = EndOnExit(cfg[1], MarkError(@, TRUE))]
                /\ threads' = [threads EXCEPT ![t].pc = "idle", ![t].ambient = th.tok,
                                              ![t].out = [kind |-> "exc", val |-> "KeyError"]]
                /\ UNCHANGED stack_trace
        /\ UNCHANGED <<cfg, ambient, inv, stack, log, ret, hung, sink,
                       clean, iter, singleton, metrics, outer>>

\* Lines 195-197 and 304: log_info formats the record as it is now, the
\* wrapper returns result and the with block ends.
LogOutput(t) ==
    LET th == threads[t]
    IN  /\ th.pc = "log_output"
        /\ spans' = [spans EXCEPT ![th.span] = EndOnExit(cfg[1], @)]
        /\ threads' = [threads EXCEPT ![t] =
               [th EXCEPT !.pc = "idle", !.ambient = th.tok,
                          !.line = [kind |-> "output", aid |-> th.aid,
                                    res |-> th.result, rec |-> stack_trace[1]],
                          !.out = [kind |-> "ret", val |-> Forward(th.result)]]]
        /\ UNCHANGED <<cfg, stack_trace, ambient, inv, stack, log, ret, hung, sink,
                       clean, iter, singleton, metrics, outer>>

\* One wrapped blocking function with trace_input and trace_output, called by
\* the threads of Workers with two different argument lists.
RaceConfigs == {c \in LogConfigs : c.shape = "sync"}
InitRace == InitWith(RaceConfigs, {})
NextRace ==
    \/ \E t \in Workers, aid \in {1, 5} : SyncEnter(t, aid)
    \/ \E t \in Workers : StoreInput(t)
    \/ \E t \in Workers : LogInput(t)
    \/ \E t \in Workers, v \in Results : RunBody(t, v)
    \/ \E t \in Workers : StoreOutput(t)
    \/ \E t \in Workers : CheckInput(t)
    \/ \E t \in Workers : DeleteInput(t)
    \/ \E t \in Workers : LogOutput(t)
SpecRace == InitRace /\ [][NextRace]_vars

\* One wrapped callable that logs no input, with and without an is_output_error
\* predicate, trace_output and auto_end; end_span_recursive is called.
FlagConfigs == {c \in Configs : ~c.trace_input /\ c.ictx = "none"}
InitFlag == InitWith(FlagConfigs, {})
NextFlag ==
    \/ NextOver({1})
    \/ \E s \in DOMAIN spans : EndSpanRecursive(s)
SpecFlag == InitFlag /\ [][NextFlag]_vars

\* One wrapped generator or async generator function that logs nothing; its
\* generators are consumed on one thread, in any interleaving, each up to its
\* exhaustion.
GenConfigs ==
    {c \in Configs : /\ IsProducer(c.shape) /\ ~c.trace_input /\ ~c.trace_output
                     /\ c.ictx = "none" /\ ~c.pred}
InitGens == InitWith(GenConfigs, {})
NextGens ==
    \/ \E f \in Funcs : CallProducer(f)
    \/ \E i \in DOMAIN inv, left \in 0..MaxYield : GenStart(i, 1, left)
    \/ \E i \in DOMAIN inv : GenNext(i)
    \/ \E i \in DOMAIN inv, v \in Results : Yield(i, v)
    \/ \E i \in DOMAIN inv : Exhaust(i)
SpecGens == InitGens /\ [][NextGens]_vars

\* ------------------------------------------ HttpLoggingMiddleware
\* log_request (http_logging.py lines 38-73) for a request with this path and
\* client: request.client.host (line 47) raises AttributeError when the
\* request has no client; otherwise the logger gets an entry unless the path
\* is one of the two health-check paths (line 66).
log_request(path, client) ==
    [raises |-> client = "none",
     entry |-> client # "none" /\ path # "/" /\ path # "/admin/metrics"]

\* dispatch is called with a request (lines 19-22): start_time, then
\* await call_next(request).
HttpDispatch(path, client) ==
    /\ http.pc = "idle"
    /\ http.reqs < MaxRequests
    /\ http' = [NoHttp EXCEPT !.pc = "call_next", !.reqs = http.reqs + 1,
                              !.path = path, !.client = client,
                              !.entries = http.entries]
    /\ UNCHANGED <<wrappers, clean, iter, singleton, metrics, threads, auth, chunks>>

\* call_next is over (lines 23-36): the status code is the response's, the
\* HTTPException's or 500; log_request is called in the except clauses and in
\* the else clause, and what it raises leaves dispatch in place of raise exc
\* or return response.  CancelledError matches no except clause.
HttpCallNext(down) ==
    /\ http.pc = "call_next"
    /\ LET status == IF down.kind = "Exception" THEN HTTP_500_INTERNAL_SERVER_ERROR
                     ELSE down.code
           l == log_request(http.path, http.client)
       IN  http' =
               IF down.kind = "CancelledError"
               THEN [http EXCEPT !.pc = "idle", !.down = down, !.out = down]
               ELSE [http EXCEPT
                        !.pc = "idle", !.down = down, !.status = status,
                        !.calls = @ + 1, !.entry = l.entry,
                        !.entries = IF l.entry THEN @ + 1 ELSE @,
                        !.out = IF l.raises THEN [kind |-> "AttributeError", code |-> 0]
                                ELSE down]
    /\ UNCHANGED <<wrappers, clean, iter, singleton, metrics, threads, auth, chunks>>

\* Requests through HttpLoggingMiddleware, one at a time.
InitHttp == cfg = <<>> /\ Quiet /\ clean = NoClean /\ iter = NoIter
NextHttp ==
    \/ \E path \in Paths, client \in Clients : HttpDispatch(path, client)
    \/ \E down \in Downstreams : HttpCallNext(down)
SpecHttp == InitHttp /\ [][NextHttp]_vars

\* ------------------------------------ AuthMiddleware / AuthDependency
\* `not authorization`, `not user_info`: None and the empty value are false.
Falsy_NoneOnly(v) == v \in {"missing", "none"}
Falsy(v) == v \in {"missing", "empty", "none"}

\* raise HTTPException(status_code=401, ...)
Denied == [kind |-> "HTTPException", code |-> Unauthorized]

\* The handler is called with a request (auth.py lines 22-26, 41-45): without
\* authorization header it raises 401, otherwise it awaits get_user_info.
AuthDispatch(via, header) ==
    /\ auth.pc = "idle"
    /\ auth.reqs < MaxRequests
    /\ auth' = IF Falsy(header)
               THEN [NoAuth EXCEPT !.reqs = auth.reqs + 1, !.via = via,
                                   !.header = header, !.out = Denied,
                                   !.lookups = auth.lookups, !.nexts = auth.nexts]
               ELSE [NoAuth EXCEPT !.pc = "verify", !.reqs = auth.reqs + 1,
                                   !.via = via, !.header = header,
                                   !.lookups = auth.lookups + 1, !.nexts = auth.nexts]
    /\ UNCHANGED <<wrappers, clean, iter, singleton, metrics, threads, http, chunks>>

\* get_user_info is over (lines 26-35, 45-51): its exception leaves the
\* handler; a false user_info raises 401; otherwise request.state.user_info is
\* set, and the dependency returns while the middleware awaits call_next.
AuthVerify(v) ==
    /\ auth.pc = "verify"
    /\ auth' =
           IF v = "raises"
           THEN [auth EXCEPT !.pc = "idle", !.verified = v,
                             !.out = [kind |-> "Exception", code |-> 0]]
           ELSE IF Falsy(v)
           THEN [auth EXCEPT !.pc = "idle", !.verified = v, !.out = Denied]
           ELSE IF auth.via = "dependency"
           THEN [auth EXCEPT !.pc = "idle", !.verified = v, !.user_info = v,
                             !.passed = TRUE,
                             !.out = [kind |-> "return", code |-> 0]]
           ELSE [auth EXCEPT !.pc = "call_next", !.verified = v, !.user_info = v]
    /\ UNCHANGED <<wrappers, clean, iter, singleton, metrics, threads, http, chunks>>

\* response = await call_next(request); return response (lines 34-35).
AuthCallNext(down) ==
    /\ auth.pc = "call_next"
    /\ auth' = [auth EXCEPT !.pc = "idle", !.passed = TRUE, !.out = down,
                            !.nexts = @ + 1]
    /\ UNCHANGED <<wrappers, clean, iter, singleton, metrics, threads, http, chunks>>

\* Requests through AuthMiddleware and AuthDependency, one at a time.
InitAuth == cfg = <<>> /\ Quiet /\ clean = NoClean /\ iter = NoIter
NextAuth ==
    \/ \E via \in Vias, header \in Headers : AuthDispatch(via, header)
    \/ \E v \in Verifications : AuthVerify(v)
    \/ \E down \in Downstreams : AuthCallNext(down)
SpecAuth == InitAuth /\ [][NextAuth]_vars

\* ------------------------------------------------------- divide_chunks
\* CommonUtils.divide_chunks(lst, n) is called.
DivideChunks ==
    /\ chunks.phase = "new"
    /\ chunks' = [chunks EXCEPT !.phase = "done",
                                !.out = divide_chunks(chunks.lst, chunks.n)]
    /\ UNCHANGED <<wrappers, clean, iter, singleton, metrics, threads, http, auth>>

\* divide_chunks on every list of Lists and every n from 1 to MaxParts.
InitChunks ==
    /\ cfg = <<>>
    /\ stack_trace = [f \in Funcs |-> NewRecord]
    /\ ambient = EmptyCtx
    /\ spans = <<>>
    /\ inv = <<>>
    /\ stack = <<>>
    /\ log = NoLog
    /\ ret = NoReturn
    /\ hung = FALSE
    /\ sink = TRUE
    /\ clean = NoClean
    /\ iter = NoIter
    /\ singleton = NoSingleton
    /\ metrics = NoMetrics
    /\ threads = NoThreads
    /\ http = NoHttp
    /\ auth = NoAuth
    /\ \E lst \in Lists, n \in 1..MaxParts :
           chunks = [NoChunks EXCEPT !.lst = lst, !.n = n, !.phase = "new"]
NextChunks == DivideChunks
SpecChunks == InitChunks /\ [][NextChunks]_vars

\* One callable of every kind decorator tells apart, wrapped with the default
\* settings and called with plain arguments.
ShapeConfigs ==
    {c \in Decorated : /\ ~c.trace_input /\ ~c.trace_output /\ ~c.pred
                       /\ c.ictx = "none" /\ c.auto_end}
InitShape == InitWith(ShapeConfigs, {})
NextShape == NextOver({1})
SpecShape == InitShape /\ [][NextShape]_vars

TypeOK ==
    /\ DOMAIN cfg \subseteq Funcs
    /\ \A f \in DOMAIN cfg : cfg[f] \in Decorated
    /\ Len(inv) <= MaxCalls
    /\ inv # <<>> => Len(spans) <= Len(inv)
    /\ \A t \in Workers : threads[t].jobs <= MaxJobs
    /\ \A k \in DOMAIN stack : stack[k] \in DOMAIN inv /\ inv[stack[k]].st = "run"
    /\ hung \in BOOLEAN
    /\ sink \in BOOLEAN

\* ------------------------------------------------------------- properties
IsGen(i) == IsProducer(cfg[inv[i].f].shape)
SpanOf(i) == spans[inv[i].span]
ConfigOf(i) == cfg[inv[i].f]
\* The invocation that finished last was not ended by its consumer's close().
NotClosed == ret.out.val # "GeneratorExit"

\* C1 (as claimed): the caller of the wrapper observes what the wrapped
\* callable did: the same return value or the same exception, and for a
\* producer the same elements.
C1_Transparency ==
    /\ \A i \in DOMAIN inv : inv[i].got = inv[i].made
    /\ ret.by # 0 /\ NotClosed => ret.out = ret.fout /\ ret.got = ret.made

\* C2: under auto_end=True a finished invocation (returned, exhausted, raised
\* or closed) has exactly one span, and that span is ended.
C2_SpanClosure ==
    \A i \in DOMAIN inv :
        inv[i].st = "done" /\ ConfigOf(i).auto_end =>
            /\ Cardinality({s \in DOMAIN spans : spans[s].owner = i}) = 1
            /\ inv[i].span \in DOMAIN spans
            /\ SpanOf(i).owner = i
            /\ IsEnded(SpanOf(i))

\* C2 witness: a generator with auto_end=True was consumed to exhaustion, two
\* elements delivered, and its span is ended.
C2_Witness ==
    /\ ret.by # 0
    /\ ret.out.kind = "stop"
    /\ Len(ret.got) = 2
    /\ ConfigOf(ret.by).auto_end
    /\ IsEnded(SpanOf(ret.by))

\* Invocation ret.by ended because its wrapped callable raised or was cancelled.
Raised == ret.by # 0 /\ ret.fout.kind = "exc"
InputLines(i) == IF ConfigOf(i).trace_input THEN 1 ELSE 0

OutputLogged ==
    /\ ret.by # 0
    /\ ret.out.kind = "stop"
    /\ log.by = ret.by
    /\ log.kind = "output"

\* C9 (as claimed): the caller receives exactly the elements the producer
\* yields, in order, and the output snapshot at exhaustion equals the last
\* element yielded.
C9_Original ==
    /\ \A i \in DOMAIN inv : inv[i].got = inv[i].made
    /\ ret.got = ret.made
    /\ OutputLogged /\ ret.made # <<>> => log.line.output = ret.made[Len(ret.made)]

\* C9 (amended): the caller receives exactly the elements the producer yields,
\* in order, and the output snapshot at exhaustion is to_json_obj of the last
\* element yielded (of None when nothing was yielded).
C9_Amended ==
    /\ \A i \in DOMAIN inv : inv[i].got = inv[i].made
    /\ ret.got = ret.made
    /\ OutputLogged =>
          log.line.output =
              to_json_obj(IF ret.made = <<>> THEN None ELSE ret.made[Len(ret.made)])

\* C9 witness: a producer yielded a primitive and then a model, the caller
\* received both, and the output snapshot is the model's JSON form.
C9_Witness ==
    /\ OutputLogged
    /\ ret.got = <<"ok", "model">>
    /\ log.line.output = "model_json"

\* While a generator is started and not finished its span is open and it has
\* emitted no output line.
OpenWhileLive ==
    \A i \in DOMAIN inv :
        IsGen(i) /\ inv[i].st \in {"run", "susp"} =>
            /\ ~IsEnded(SpanOf(i))
            /\ ~(log.by = i /\ log.kind = "output")

AllCompleted == \A k \in DOMAIN inv : inv[k].st = "done"

\* C4 (as claimed): the input line of an invocation begun when every earlier
\* invocation of the callable has completed carries no output entry.
C4_NoLeak ==
    [][\A f \in Funcs, aid \in ArgIds :
          Call(f, aid) /\ AllCompleted /\ cfg[f].trace_input /\ ~ConfigRaises(ArgLists[aid])
              => /\ log'.by = Len(inv')
                 /\ log'.kind = "input"
                 /\ "output" \notin log'.line.keys]_vars

IsSync(i) == ConfigOf(i).shape = "sync"
\* The declared parameters of an argument list that are captured.
Captured(a) == {b \in Bound(a) : b[1] \notin {"config", "context"}}
\* Invocation i is the one that returned last and that logged last.
ReturnedAndLogged(i) == ret.by = i /\ ret.out.kind = "ret" /\ log.by = i

\* C5 (as claimed): a call of a wrapped blocking function with trace_input
\* and trace_output that returns emits exactly two lines: before the body
\* runs one whose input maps each declared parameter to its argument value,
\* after the return one whose output is the returned value, without input key.
C5_Original ==
    \A i \in DOMAIN inv :
        IsSync(i) =>
            /\ inv[i].st = "run" => inv[i].nlog = 1
            /\ log.by = i /\ log.kind = "input" =>
                  /\ "input" \in log.line.keys
                  /\ log.line.input = Bound(ArgLists[log.aid])
            /\ ReturnedAndLogged(i) =>
                  /\ ret.nlog = 2
                  /\ log.kind = "output"
                  /\ "input" \notin log.line.keys
                  /\ log.line.output = ret.out.val

\* C5 (amended): a call of a wrapped blocking function with trace_input and
\* trace_output that returns emits exactly two lines: before the body runs one
\* whose input maps each declared parameter other than config and context to
\* to_json_obj of its argument, after the return one whose output is
\* to_json_obj of the returned value, without input key.
C5_TwoLines ==
    \A i \in DOMAIN inv :
        IsSync(i) =>
            /\ inv[i].st = "run" => inv[i].nlog = 1
            /\ log.by = i /\ log.kind = "input" =>
                  /\ "input" \in log.line.keys
                  /\ log.line.input =
                        {<<b[1], to_json_obj(b[2])>> : b \in Captured(ArgLists[log.aid])}
            /\ ReturnedAndLogged(i) =>
                  /\ ret.nlog = 2
                  /\ log.kind = "output"
                  /\ "input" \notin log.line.keys
                  /\ log.line.output = to_json_obj(ret.out.val)

\* C5 witness: a blocking function returned a model; two lines were emitted
\* and the output of the second is the model's JSON form.
C5_Witness ==
    /\ ret.by # 0
    /\ IsSync(ret.by)
    /\ ReturnedAndLogged(ret.by)
    /\ ret.out.val = "model"
    /\ ret.nlog = 2
    /\ log.line.output = "model_json"

\* The argument list holds no Request.
NoCarrier(a) == FirstRequest(a.pos) = "" /\ FirstRequest(KwValues(a.kw)) = ""
\* The step is the entry of invocation i into the wrapper of f with argument
\* list aid: a call, or the first next() of a generator.
Enters(i, f, aid) ==
    \/ i = Len(inv) + 1 /\ Call(f, aid)
    \/ /\ i \in DOMAIN inv
       /\ inv[i].f = f
       /\ \E left \in 0..MaxYield : GenStart(i, aid, left)
       /\ Len(spans') = Len(spans) + 1
\* The span started by the step.
NewSpan == spans'[Len(spans')]

\* C6 (as claimed, for inner calls that supply no context of their own): the
\* span of an instrumented call made inside another instrumented call has the
\* enclosing call's span as parent and its trace-id.
C6_Inheritance ==
    [][\A i \in 1..MaxCalls, f \in Funcs, aid \in ArgIds :
          /\ Enters(i, f, aid)
          /\ stack # <<>>
          /\ NoCarrier(ArgLists[aid])
          /\ cfg[f].ictx = "none"
          => /\ NewSpan.parent = inv[Top].span
             /\ NewSpan.trace = spans[inv[Top].span].trace]_vars

\* C7 (as claimed): an instrumented call made outside any instrumented call,
\* all earlier ones completed, with no carrier and no input_context, starts a
\* root span with a trace-id of its own.
C7_FreshTrace ==
    [][\A i \in 1..MaxCalls, f \in Funcs, aid \in ArgIds :
          /\ Enters(i, f, aid)
          /\ stack = <<>>
          /\ \A k \in DOMAIN inv : k # i => inv[k].st = "done"
          /\ NoCarrier(ArgLists[aid])
          /\ cfg[f].ictx = "none"
          => /\ NewSpan.parent = INVALID_SPAN
             /\ NewSpan.trace = Len(spans')]_vars

\* C8 (as claimed): when an input_context is supplied, whatever its value, the
\* span of every invocation is started under exactly that context.
C8_InputContext ==
    [][\A i \in 1..MaxCalls, f \in Funcs, aid \in ArgIds :
          Enters(i, f, aid) /\ cfg[f].ictx # "none"
          => NewSpan.parent = CurrentSpan(InputContextOf(cfg[f]))]_vars

RECURSIVE NoEmpties(_)
\* No element or value at any depth of n is None, [] or {}.
NoEmpties(n) ==
    \A i \in DOMAIN n.v :
        /\ n.v[i].t # "none"
        /\ ~IsEmptyList(n.v[i])
        /\ ~IsEmptyDict(n.v[i])
        /\ NoEmpties(n.v[i])

\* C13 (as claimed): the result of clean_empty holds no None, no [] and no {}
\* as a dict value or list element at any depth.
C13_Pruned == clean.runs >= 1 => NoEmpties(clean.out)

\* C14: clean_empty applied to a result of clean_empty gives that result.
C14_Idempotent == clean.runs >= 2 => clean.out = clean.prev

\* C14 witness: clean_empty was applied twice to a structure from which the
\* first application removed something, leaving a dict with an entry.
C14_Witness ==
    /\ clean.runs = 2
    /\ clean.doc.t = "dict"
    /\ clean.prev # clean.doc
    /\ clean.prev.v # <<>>
    /\ clean.out = clean.prev

\* C11: the elements the wrapped callable consumes from an async-iterator
\* argument are the elements of the original iterator in order, whether the
\* argument was left in place or replaced by the copy made by tee.
C11_SameElements ==
    /\ iter.seen = SubSeq(iter.items, 1, Len(iter.seen))
    /\ iter.phase = "done" /\ iter.val = "aiter" => iter.seen = iter.items

\* C11 witness: async_to_json_obj was called with k and args on an iterator of
\* three elements and the wrapped callable consumed the three from the copy.
C11_Witness ==
    /\ iter.phase = "done"
    /\ iter.via = "direct"
    /\ iter.arg = "copy"
    /\ Len(iter.items) = 3
    /\ iter.seen = iter.items

\* C12 (as claimed): the input snapshot a wrapper logs for an async-iterator
\* argument is the serialized last element, or "" when there is none.
C12_LastElement ==
    iter.via = "wrapper" /\ iter.val = "aiter" =>
        iter.snap = IF iter.items = <<>> THEN ""
                    ELSE to_json_obj(iter.items[Len(iter.items)])

\* C19: to_json_obj does not raise; it gives the value itself for a bool,
\* number, string, list, tuple, set or dict, the JSON form for a model, and ""
\* for a model whose conversion fails.
C19_ToJsonObj ==
    iter.phase # "new" /\ iter.val # "aiter" =>
        /\ iter.snap # "raises"
        /\ iter.val \in {"ok", "True", "int", "float", "list", "tuple", "set", "dict"}
              => iter.snap = iter.val
        /\ iter.val = "model" => iter.snap = "model_json"
        /\ iter.val = "badmodel" => iter.snap = ""

\* C19 witness: to_json_obj was given a model whose conversion fails and gave "".
C19_Witness ==
    /\ iter.phase # "new"
    /\ iter.val = "badmodel"
    /\ iter.snap = ""

\* C20 (as claimed): the input snapshot logged for an argument that is neither
\* a model nor a primitive or standard container is its attribute mapping
\* (custom_serializer), never a null value.
C20_Fallback ==
    log.kind = "input" /\ log.aid = 2 =>
        /\ <<"a", custom_serializer("obj")>> \in log.line.input
        /\ \A e \in log.line.input : e[2] # None

\* Span s is started / is ended.
Opened(s) == s \in DOMAIN spans
Closed(s) == s \in DOMAIN spans /\ IsEnded(spans[s])

AutoEnded(s) ==
    /\ Opened(s)
    /\ ConfigOf(spans[s].owner).auto_end
    /\ ~IsGen(spans[s].owner)

C16_EndedOnce == \A s \in DOMAIN spans : spans[s].ends <= 1

\* C17 (as claimed): once every wrapped call has returned, raised or been
\* exhausted and none is running, the current span of the thread is what it
\* was before the first call: none.
C17_AmbientRestored ==
    stack = <<>> /\ AllCompleted => CurrentSpan(ambient) = INVALID_SPAN

Constructed == UNION {{singleton.thr[t].got[k] : k \in DOMAIN singleton.thr[t].got} : t \in Callers}

\* C21 (as claimed): all constructor calls, sequential or racing, return the
\* same instance, and that instance has been initialised exactly once.
C21_Singleton ==
    /\ Cardinality(Constructed) <= 1
    /\ \A o \in Constructed : singleton.inits[o] = 1

\* C22 (as claimed): for a wrapped plain function as for a wrapped coroutine
\* function, a call during which the function does not raise gives the caller
\* the function's result and records the request with status success.
C22_SyncAndAsync ==
    metrics.pc = "idle" /\ metrics.fout.kind = "ret" =>
        /\ metrics.out = metrics.fout
        /\ metrics.status = "success"

\* C23 (as claimed): end_span_recursive returns for every span and every
\* ambient context table, also when the parent of a span on the way is not
\* registered in the table: no thread is caught in its loop.
C23_Terminates == ~hung

RECURSIVE Ancestors(_)
\* The spans of the arena on the parent chain of span s, s excluded.
Ancestors(s) ==
    IF spans[s].parent > 0 THEN {spans[s].parent} \cup Ancestors(spans[s].parent) ELSE {}

\* The ancestors of s above an ancestor of s that is ended.
Beyond(s) ==
    {x \in Ancestors(s) : \E a \in Ancestors(s) : IsEnded(spans[a]) /\ x \in Ancestors(a)}

\* C24 (as claimed): a call of end_span_recursive changes no ancestor of the
\* given span that lies above an ancestor already ended.
C24_StopsAtClosed ==
    [][\A s \in 1..MaxCalls :
          EndSpanRecursive(s) => \A x \in Beyond(s) : spans'[x] = spans[x]]_vars

RECURSIVE ReachableChain(_)
\* Span s and its ancestors as far as each parent is registered in the ambient
\* context table.
ReachableChain(s) ==
    {s} \cup (IF spans[s].parent > 0 /\ BagIn(spans[s].parent, ambient.regs)
              THEN ReachableChain(spans[s].parent) ELSE {})

\* C25: a call of end_span_recursive(s) that returns has ended the spans not
\* yet ended among s and its ancestors reachable through the ambient context
\* table, and has changed no other span and no span already ended.
C25_EndsChain ==
    [][\A s \in 1..MaxCalls :
          EndSpanRecursive(s) /\ ~hung' =>
              \A x \in DOMAIN spans :
                  spans'[x] = IF x \in ReachableChain(s) /\ ~IsEnded(spans[x])
                              THEN [spans[x] EXCEPT !.ends = 1]
                              ELSE spans[x]]_vars

\* C25 witness: end_span_recursive was called on the span of a call made
\* inside another call, both spans open (auto_end=False), and has returned:
\* both spans are ended once although both calls are still running.
C25_Witness ==
    /\ ~hung
    /\ Len(stack) = 2
    /\ Len(spans) = 2
    /\ spans[2].parent = 1
    /\ ~cfg[1].auto_end
    /\ spans[1].ends = 1
    /\ spans[2].ends = 1

\* C26 (as claimed): with overlapping invocations of one wrapped callable, the
\* input a trace line carries is the input of the invocation that emitted it,
\* the output an output line carries is the output of that invocation, and no
\* output line has an input key.
C26_OwnInputOutput ==
    \A t \in Workers :
        LET l == threads[t].line
        IN  /\ l.kind # "none" /\ "input" \in l.rec.keys =>
                  l.rec.input = InputSnapshot(ArgLists[l.aid])
            /\ l.kind = "output" =>
                  /\ "input" \notin l.rec.keys
                  /\ l.rec.output = to_json_obj(l.res)

\* C27 (as claimed): however the threads' steps on the shared record
\* interleave, no call of the wrapper raises, and each call that has returned
\* gave its caller the wrapped function's result.
C27_NoWrapperError ==
    \A t \in Workers :
        /\ threads[t].out.kind # "exc"
        /\ threads[t].out.kind = "ret" => threads[t].out = threads[t].fout

\* The first Request of an argument list, positional arguments first.
FirstCarrier(a) ==
    IF FirstRequest(a.pos) # "" THEN FirstRequest(a.pos)
    ELSE FirstRequest(KwValues(a.kw))

\* C28 (as claimed): the context a wrapper without input_context starts its
\* span under is the one extracted from the first carrier among the positional
\* and then the keyword arguments, also when a later argument is a carrier
\* too; without a carrier it has the ambient current span as current span.
C28_FirstCarrier ==
    [][\A i \in 1..MaxCalls, f \in Funcs, aid \in {1, 3, 6} :
          Enters(i, f, aid) /\ cfg[f].ictx = "none" =>
              IF FirstCarrier(ArgLists[aid]) # ""
              THEN /\ inv'[i].tok = extract(FirstCarrier(ArgLists[aid]))
                   /\ NewSpan.parent = CurrentSpan(extract(FirstCarrier(ArgLists[aid])))
              ELSE /\ CurrentSpan(inv'[i].tok) = CurrentSpan(ambient)
                   /\ NewSpan.parent = CurrentSpan(ambient)]_vars

\* No span has two registration entries in the context.
OneEntryEach(ctx) == \A x \in BagToSet(ctx.regs) : CopiesIn(x, ctx.regs) = 1
\* That holds of the ambient context and of the context of every invocation.
NoDoubleEntry ==
    /\ OneEntryEach(ambient)
    /\ \A k \in DOMAIN inv : OneEntryEach(inv[k].tok)

\* C29: the context a wrapper gets from get_new_context (no carrier, no
\* non-empty input_context) has the ambient current span as current span and
\* the ambient registration entries, plus one for that span when the ambient
\* table had none; and no context ever holds two registration entries for one
\* span.
C29_OneRegistration ==
    [][/\ \A i \in 1..MaxCalls, f \in Funcs, aid \in ArgIds :
             /\ Enters(i, f, aid)
             /\ NoCarrier(ArgLists[aid])
             /\ cfg[f].ictx # "remote"
             => /\ inv'[i].tok.span = CurrentSpan(ambient)
                /\ inv'[i].tok.regs =
                      IF BagIn(CurrentSpan(ambient), ambient.regs) THEN ambient.regs
                      ELSE ambient.regs (+) SetToBag({CurrentSpan(ambient)})
       /\ NoDoubleEntry']_vars

\* C29 witness: two calls were made one after the other inside a third; their
\* spans have the span of the enclosing call as parent, and the ambient table
\* holds one registration entry for it.
C29_Witness ==
    /\ Len(spans) = 3
    /\ spans[2].parent = 1
    /\ spans[3].parent = 1
    /\ CopiesIn(1, ambient.regs) = 1
    /\ CopiesIn(1, inv[3].tok.regs) = 1

\* The parameters of the wrapped callable an argument list binds: those given
\* by position or keyword and those left to their defaults.
Params(a) ==
    {a.names[i] : i \in DOMAIN a.pos} \cup {a.kw[i][1] : i \in DOMAIN a.kw}
        \cup {x[1] : x \in a.dflt}

\* C30: the input snapshot of a call with trace_input has one entry for each
\* bound parameter (defaults included) other than context and config and no
\* other entry; the entries of config's metadata are attributes of the span,
\* a str value as it is and any other value as its JSON text.
C30_SnapshotEntries ==
    log.kind = "input" =>
        LET a == ArgLists[log.aid]
            names == Params(a) \ {"config", "context"}
        IN  /\ {e[1] : e \in log.line.input} = names
            /\ Cardinality(log.line.input) = Cardinality(names)
            /\ SpanOf(log.by).attrs =
                  IF log.aid = 5 THEN {<<"meta_k", "ok">>, <<"meta_n", "int_json">>}
                  ELSE {}

\* C30 witness: a call with a request, a config holding metadata and a
\* parameter left to its default has logged its input: the snapshot has the
\* three entries a, request and limit, the span the two metadata attributes.
C30_Witness ==
    /\ log.kind = "input"
    /\ log.aid = 5
    /\ {e[1] : e \in log.line.input} = {"a", "request", "limit"}
    /\ <<"limit", "int">> \in log.line.input
    /\ SpanOf(log.by).attrs = {<<"meta_k", "ok">>, <<"meta_n", "int_json">>}

\* The step is the normal end of invocation i: its function returns or its
\* sequence is exhausted.
Returns(i) ==
    /\ i \in DOMAIN inv
    /\ inv[i].st = "run"
    /\ inv'[i].st = "done"
    /\ ret'.by = i
    /\ ret'.fout.kind \in {"ret", "stop"}
\* What set_stacktrace_output is given in that step: the returned value, or the
\* element yielded last.
ResultOf(i) == IF ret'.fout.kind = "ret" THEN ret'.fout.val ELSE inv[i].last
\* The output_error attribute of a span changes only in the normal end of the
\* invocation that owns the span.
FlagOnlyAtReturn ==
    \A s \in DOMAIN spans :
        spans'[s].oerr # spans[s].oerr => Returns(spans[s].owner) /\ spans'[s].oerr

\* C31 (as claimed): the span of a call that ends normally has output_error
\* exactly when a predicate was supplied and flags the result (the last
\* yielded value of a producer), whatever trace_output is; the attribute is on
\* the span when the output line is emitted and the span is ended.
C31_Original ==
    [][/\ \A i \in 1..MaxCalls :
             Returns(i) =>
                 (spans'[inv[i].span].oerr <=> ConfigOf(i).pred /\ IsErr(ResultOf(i)))
       /\ FlagOnlyAtReturn]_vars

\* C31 (amended): the span of a call that ends normally has output_error
\* exactly when a predicate was supplied, flags the result (the last yielded
\* value of a producer) and the span was not ended before the call returned,
\* whatever trace_output is; the attribute is on the span when the output line
\* is emitted and the span is ended.
C31_OutputError ==
    [][/\ \A i \in 1..MaxCalls :
             Returns(i) =>
                 (spans'[inv[i].span].oerr <=>
                     /\ ConfigOf(i).pred
                     /\ IsErr(ResultOf(i))
                     /\ ~IsEnded(spans[inv[i].span]))
       /\ FlagOnlyAtReturn]_vars

\* C31 witness: a call with a predicate, auto_end and no trace_output returned
\* a value the predicate flags; its span is ended and has the attribute.
C31_Witness ==
    /\ ret.by # 0
    /\ ret.fout = [kind |-> "ret", val |-> "model"]
    /\ ConfigOf(ret.by).pred
    /\ ~ConfigOf(ret.by).trace_output
    /\ SpanOf(ret.by).ends = 1
    /\ SpanOf(ret.by).oerr

\* C32 (as claimed): a call whose config argument has no mapping interface
\* still enters the wrapped callable: after the wrapper's prologue the body
\* runs, and the prologue has handed no exception to the caller.
C32_MetadataFailure ==
    [][\A i \in 1..MaxCalls, f \in Funcs :
          Enters(i, f, 4) => inv'[i].st = "run" /\ ret' = ret]_vars

\* How often span s was ended before the step (a span the step starts: never).
EndsBefore(s) == IF s \in DOMAIN spans THEN spans[s].ends ELSE 0

\* C33: no step of a wrapper ends the span of an invocation of a callable
\* wrapped with auto_end=False, whatever its shape and however the invocation
\* finishes: such a span is ended only by a call of end_span_recursive.
C33_LeftOpen ==
    [][\A s \in DOMAIN spans' :
          /\ ~cfg[inv'[spans'[s].owner].f].auto_end
          /\ spans'[s].ends # EndsBefore(s)
          => \E x \in DOMAIN spans : EndSpanRecursive(x)]_vars

\* C33 witness: a generator wrapped with auto_end=False was consumed to
\* exhaustion, two elements delivered, and its span is still open.
C33_Witness ==
    /\ ret.by # 0
    /\ ret.out.kind = "stop"
    /\ Len(ret.got) = 2
    /\ ~ConfigOf(ret.by).auto_end
    /\ SpanOf(ret.by).ends = 0

\* C34 (as claimed): when two wrapped generators, consumed on one thread in any
\* interleaving, are both exhausted, the current span of the thread is what it
\* was before the first of them was started: none.
C34_InterleavedGenerators ==
    Len(inv) = 2 /\ AllCompleted /\ stack = <<>> => CurrentSpan(ambient) = INVALID_SPAN

\* The label the finally block records the call under.
StatusOf(m) == IF m.pending.kind = "ret" THEN "success" ELSE "error"

\* C35 (as claimed): for every awaited invocation through each of the three
\* wrappers, with metric objects that work, the finally block increments
\* downstream_request_count once and observes one duration, both under status
\* success if the awaited call returned and error if it raised or was
\* cancelled, and the caller gets the call's own result or exception.
C35_OneRecord ==
    [][TrackFinally("none") /\ ~metrics.broken =>
          /\ metrics'.count = [metrics.count EXCEPT ![StatusOf(metrics)] = @ + 1]
          /\ metrics'.time = [metrics.time EXCEPT ![StatusOf(metrics)] = @ + 1]
          /\ StatusOf(metrics) = "success" <=> metrics.fout.kind = "ret"
          /\ metrics'.out = metrics.fout]_vars

\* C36 (as claimed): whether or not the metric objects fail while a call is
\* recorded, the caller of each of the three wrappers observes what the
\* awaited function did: its result, or its own exception.
C36_SinkFailure ==
    metrics.pc = "idle" /\ metrics.fout # NoOutcome => metrics.out = metrics.fout

\* The wrapper shape the claim gives each callable.
ClaimedShape(func) ==
    CASE func = "coroutinefunction" -> "async"
      [] func = "generatorfunction" -> "gen"
      [] func = "asyncgenfunction" -> "asyncgen"
      [] OTHER -> "sync"

\* C37: the wrapper of a coroutine function behaves as a coroutine function,
\* that of a generator function as a generator function, that of an async
\* generator function as an async generator function and that of any other
\* callable as a plain function: a call gives a generator object whose code
\* has not run exactly for the two producer shapes, only the two deferred
\* shapes can be cancelled, and the shape fixed by the decorator never changes.
C37_SameShape ==
    [][/\ \A f \in DOMAIN cfg :
             cfg'[f] = cfg[f] /\ cfg[f].shape = ClaimedShape(cfg[f].func)
       /\ \A i \in DOMAIN inv' \ DOMAIN inv :
             inv'[i].st = "new" <=> IsProducer(ClaimedShape(cfg[inv'[i].f].func))
       /\ \A i \in DOMAIN inv, r \in BaseExceptionRecorded :
             Cancel(i, r) => ClaimedShape(cfg[inv[i].f].func) \in {"async", "asyncgen"}]_vars

\* C37 witness: an async generator function was wrapped and called twice; both
\* calls gave a generator, and both generators were consumed to exhaustion.
C37_Witness ==
    /\ cfg[1].func = "asyncgenfunction"
    /\ Len(inv) = 2
    /\ AllCompleted
    /\ Len(spans) = 2
    /\ ret.out.kind = "stop"
    /\ Len(ret.got) = 2

\* C38 (as claimed): for a request whose downstream returned a response,
\* raised an HTTPException or raised another exception, dispatch has called
\* log_request once, with the response's status, the exception's status_code
\* or 500; a downstream exception reaches the caller unchanged; and the logger
\* got an entry only for a path other than / and /admin/metrics.
C38_LogOnce ==
    http.pc = "idle" /\ http.down.kind \in {"response", "HTTPException", "Exception"} =>
        /\ http.calls = 1
        /\ http.status = IF http.down.kind = "Exception" THEN 500 ELSE http.down.code
        /\ http.down.kind # "response" => http.out = http.down
        /\ http.entry => http.path \notin {"/", "/admin/metrics"}

\* The handler has finished a request.
AuthDone == auth.pc = "idle" /\ auth.reqs > 0
\* The caller of the handler got a 401.
Got401 == auth.out = [kind |-> "HTTPException", code |-> 401]

\* C39 (as claimed): a request is let through only with an authorization
\* header and a non-empty user record from get_user_info, and then
\* request.state.user_info is that record; in every other case the handler
\* raises 401, call_next is not invoked and user_info is not set.
C39_Original ==
    /\ auth.passed \/ auth.pc = "call_next" =>
          auth.header = "token" /\ auth.verified = "user" /\ auth.user_info = "user"
    /\ AuthDone /\ ~auth.passed => Got401 /\ auth.user_info = "unset"

\* C39 (amended): a request is let through only with an authorization header
\* and a non-empty user record from get_user_info, and then
\* request.state.user_info is that record; in every other case call_next is
\* not invoked and user_info is not set, and the handler raises 401, or, when
\* get_user_info itself raised, that exception.
C39_AuthGate ==
    /\ auth.passed \/ auth.pc = "call_next" =>
          auth.header = "token" /\ auth.verified = "user" /\ auth.user_info = "user"
    /\ AuthDone /\ ~auth.passed =>
          /\ auth.user_info = "unset"
          /\ IF auth.verified = "raises" THEN auth.out.kind = "Exception" ELSE Got401

\* C39 witness: the middleware let a request with a token through for which
\* get_user_info gave a user record, and returned the response of call_next.
C39_Witness ==
    /\ AuthDone
    /\ auth.via = "middleware"
    /\ auth.passed
    /\ auth.user_info = "user"
    /\ auth.out = [kind |-> "response", code |-> 200]

RECURSIVE Concat(_)
\* The concatenation of a sequence of lists.
Concat(parts) == IF parts = <<>> THEN <<>> ELSE Head(parts) \o Concat(Tail(parts))

\* ceil(a / b)
CeilDiv(a, b) == (a + b - 1) \div b

\* C40 (as claimed): for every list, the empty one included, and every n >= 1
\* divide_chunks returns at most n chunks, none empty, whose concatenation is
\* the list, each but the last of length ceil(len(lst) / n).
C40_Chunks ==
    chunks.phase = "done" =>
        /\ chunks.out.raises = ""
        /\ Len(chunks.out.parts) <= chunks.n
        /\ \A k \in DOMAIN chunks.out.parts : chunks.out.parts[k] # <<>>
        /\ Concat(chunks.out.parts) = chunks.lst
        /\ \A k \in DOMAIN chunks.out.parts :
              k < Len(chunks.out.parts) =>
                  Len(chunks.out.parts[k]) = CeilDiv(Len(chunks.lst), chunks.n)

====
